---- MODULE Spec2Model ----
(***************************************************************************)
(* Plant-care bot: the screen-analysis-and-decision loop.                  *)
(*   analyzer.py  GameContext, SmartAnalyzer (belief, confidence, cooldown)*)
(*   executor.py  SmartExecutor (treat pest, water, watering-can check)    *)
(*   bot.py       PlantCareBot (monitor loop, start, emergency stop)       *)
(* Time is the wall clock in whole seconds.  Liters are in tenths.         *)
(* Confidence scores are binary64 values k/10 written 10*k, with +1 or -1  *)
(* when the float sum lies just above or below the double nearest to k/10. *)
(***************************************************************************)
EXTENDS Integers, Sequences, FiniteSets, TLC

\* ------------------------------------------------------------- bounds ---
StartTime == 10        \* wall clock at construction; time.time() is far above every cooldown
Horizon == 6           \* seconds of wall clock explored in the loop specification
MaxScans == 2          \* cycles started by one run of the loop specification
MaxStarts == 2         \* start() calls that launch a loop thread
GateHorizon == 6       \* seconds explored in the cooldown-gate specification
MaxChecks == 3         \* permission checks in the cooldown-gate specification
MaxActionAppends == 22 \* add_action calls in the history specification
MaxParasiteAppends == 11 \* add_parasite calls in the history specification
LongHorizon == 12      \* seconds of wall clock explored in the long-run specification
LongScans == 6         \* cycles started by one run of the long-run specification
FailHorizon == 2       \* seconds of wall clock explored in the failure specification
FailScans == 7         \* cycles started by one run of the failure specification
FailErrors == 6        \* cycles that raise in one run of the failure specification

\* -------------------------------------------------- program constants ---
default_cooldown == 3          \* analyzer.py:144
ParasiteCooldown == 5          \* executor.py:85
WaterCooldown == 3             \* executor.py:103
RecentTreatmentWindow == 10    \* executor.py:110
water_check_interval == 5      \* executor.py:48
max_errors == 5                \* bot.py:242
MaxRecentActions == 20         \* analyzer.py:51
MaxRecentParasites == 10       \* analyzer.py:57
watering_amount == 50          \* config.py:68  (5.0 l)
\* The threshold written on a scale ten times too small (0.03).
ThresholdOffScale == 30 \div 10
ConfidenceThreshold == 30      \* bot.py:277 and executor.py:72  (0.3)

\* The pest catalog, in catalog order (two of the ten entries).
Catalog == <<"TLYA", "TRIPS">>
PestNames == {Catalog[i] : i \in 1..Len(Catalog)}
\* ParasiteConfig.key: the shortcut key of the pest's chemical.
PestKey(p) == IF p = "TLYA" THEN "2" ELSE "8"
\* sum(parasite.water_amount) / 2, in tenths of a liter.
AvgAmount(p) == IF p = "TLYA" THEN 22 ELSE 32
\* One cooldown key for every pest.
SharedParasiteKey(p) == "parasite_TLYA"
\* f"parasite_{parasite.name}"
ParasiteActionKey(p) == IF p = "TLYA" THEN "parasite_TLYA" ELSE "parasite_TRIPS"
ActionKeys == {"water"} \cup {ParasiteActionKey(p) : p \in PestNames}

\* ----------------------------------------------------- pure functions ---
Min(a, b) == IF a < b THEN a ELSE b

\* Binary64 addition of a partial score and a k/10 addend: the exact decimal
\* sum, corrected where IEEE-754 rounding leaves the nearest double of k/10.
FloatAdd(a, b) ==
    a + b + (IF <<a, b>> \in {<<10, 20>>, <<20, 10>>, <<20, 40>>, <<40, 20>>} THEN 1
             ELSE IF <<a, b>> \in {<<31, 10>>, <<61, 20>>, <<70, 10>>, <<70, 20>>, <<71, 10>>} THEN -1
             ELSE 0)

\* _calculate_confidence without the cap of min(score, 1.0).
CalculateConfidenceUncapped(a) ==
    LET s0 == IF a.text_confidence > 70 THEN FloatAdd(0, 30)
              ELSE IF a.text_confidence > 50 THEN FloatAdd(0, 20)
              ELSE IF a.text_confidence > 30 THEN FloatAdd(0, 10)
              ELSE 0
        s1 == IF a.parasites_found # <<>> THEN FloatAdd(s0, 40) ELSE s0
        s2 == IF a.water_level_low THEN FloatAdd(s1, 20) ELSE s1
        s3 == IF a.water_amount_needed # 0 THEN FloatAdd(s2, 10) ELSE s2
    IN IF a.ui_elements_detected THEN FloatAdd(s3, 10) ELSE s3

\* _calculate_confidence with the points of the top and the bottom OCR band
\* exchanged.
CalculateConfidenceBandsSwapped(a) ==
    LET s0 == IF a.text_confidence > 70 THEN FloatAdd(0, 10)
              ELSE IF a.text_confidence > 50 THEN FloatAdd(0, 20)
              ELSE IF a.text_confidence > 30 THEN FloatAdd(0, 30)
              ELSE 0
        s1 == IF a.parasites_found # <<>> THEN FloatAdd(s0, 40) ELSE s0
        s2 == IF a.water_level_low THEN FloatAdd(s1, 20) ELSE s1
        s3 == IF a.water_amount_needed # 0 THEN FloatAdd(s2, 10) ELSE s2
        s4 == IF a.ui_elements_detected THEN FloatAdd(s3, 10) ELSE s3
    IN Min(s4, 100)

\* SmartAnalyzer._calculate_confidence; text_confidence is in percent.
CalculateConfidence(a) ==
    LET s0 == IF a.text_confidence > 70 THEN FloatAdd(0, 30)
              ELSE IF a.text_confidence > 50 THEN FloatAdd(0, 20)
              ELSE IF a.text_confidence > 30 THEN FloatAdd(0, 10)
              ELSE 0
        s1 == IF a.parasites_found # <<>> THEN FloatAdd(s0, 40) ELSE s0
        s2 == IF a.water_level_low THEN FloatAdd(s1, 20) ELSE s1
        s3 == IF a.water_amount_needed # 0 THEN FloatAdd(s2, 10) ELSE s2
        s4 == IF a.ui_elements_detected THEN FloatAdd(s3, 10) ELSE s3
    IN Min(s4, 100)

\* dict.get(action_key, 0)
CooldownGet(cd, k) == IF k \in DOMAIN cd THEN cd[k] ELSE 0

\* The analyzer's default cooldown whatever the caller passed.
EffectiveCooldownIgnoresArgument(c) == default_cooldown

\* cooldown = cooldown or self.default_cooldown  (0 stands for None)
EffectiveCooldown(c) == IF c = 0 THEN default_cooldown ELSE c

\* can_perform_action with the window's last second still closed.
CanPerformActionStrict(cd, k, c, t) == t - CooldownGet(cd, k) > EffectiveCooldown(c)

\* SmartAnalyzer.can_perform_action: the verdict ...
CanPerformAction(cd, k, c, t) == t - CooldownGet(cd, k) >= EffectiveCooldown(c)

\* ... and the table it leaves behind.
CooldownsAfter(cd, k, c, t) ==
    IF CanPerformAction(cd, k, c, t)
    THEN [x \in DOMAIN cd \cup {k} |-> IF x = k THEN t ELSE cd[x]]
    ELSE cd

\* add_action dropping the entry just appended when the history is full.
AddActionKeepsOldest(gc, action) ==
    LET appended == Append(gc.recent_actions, action)
    IN [gc EXCEPT !.last_action = action,
                  !.total_actions = @ + 1,
                  !.recent_actions = IF Len(appended) > MaxRecentActions
                                     THEN SubSeq(appended, 1, MaxRecentActions)
                                     ELSE appended]

\* GameContext.add_action; a history entry is the text of the action (its
\* clock prefix and last_action_time, which nothing reads, are left out).
AddAction(gc, action) ==
    LET appended == Append(gc.recent_actions, action)
    IN [gc EXCEPT !.last_action = action,
                  !.total_actions = @ + 1,
                  !.recent_actions = IF Len(appended) > MaxRecentActions
                                     THEN Tail(appended) ELSE appended]

\* GameContext.add_parasite
AddParasite(gc, name) ==
    LET appended == Append(gc.recent_parasites, name)
    IN [gc EXCEPT !.recent_parasites = IF Len(appended) > MaxRecentParasites
                                       THEN Tail(appended) ELSE appended]

RECURSIVE AddParasites(_, _)
\* analyze_screen: for p in parasites: game_context.add_parasite(p.name)
AddParasites(gc, ps) ==
    IF ps = <<>> THEN gc ELSE AddParasites(AddParasite(gc, Head(ps)), Tail(ps))

\* ScreenAnalysis(text="", text_confidence=0.0): the dataclass defaults.
EmptyAnalysis ==
    [text |-> FALSE, text_confidence |-> 0, parasites_found |-> <<>>,
     water_level_low |-> FALSE, water_amount_needed |-> 0,
     needs_fertilizer |-> FALSE, soil_level |-> <<>>,
     ui_elements_detected |-> FALSE,
     current_screen |-> "unknown", confidence |-> 0]

\* GameContext(): the dataclass defaults.
NewGameContext ==
    [current_location |-> "unknown", last_action |-> "",
     total_actions |-> 0, plants_watered |-> 0, plants_treated |-> 0,
     water_checks |-> 0, water_level |-> "unknown",
     recent_parasites |-> <<>>, recent_actions |-> <<>>]

\* SmartExecutor.stats after construction.
NewExecutorStats ==
    [parasites_treated |-> 0, waterings_performed |-> 0, water_refills |-> 0,
     failed_actions |-> 0, total_actions |-> 0]

\* PlantCareBot.stats after construction.
NewBotStats == [scans |-> 0, actions |-> 0, parasites_found |-> 0, errors |-> 0]

\* The facts one recognized frame can yield: what _detect_parasites,
\* _analyze_water_status, _check_fertilizer_need, _detect_ui_elements and
\* _detect_screen_type return for some transcript.  A recognized word has
\* confidence above 30, so the mean is above 30 percent.
Facts(tc, ps, low, amt, fert, ui) ==
    [text |-> TRUE, text_confidence |-> tc, parasites_found |-> ps,
     water_level_low |-> low, water_amount_needed |-> amt,
     needs_fertilizer |-> fert, soil_level |-> <<>>,
     ui_elements_detected |-> ui,
     current_screen |-> IF fert THEN "gameplay" ELSE "unknown", confidence |-> 0]

\* The beliefs of the loop specification: no pest, one pest or both; no
\* water fact, a shortage with a fertilizer need, or a parsed amount of
\* 2.5 l; weak or strong recognition.
PestLists == {<<>>, <<"TLYA">>, <<"TLYA", "TRIPS">>}
WaterFacts == {<<FALSE, 0, FALSE>>, <<TRUE, 0, TRUE>>, <<FALSE, 25, FALSE>>}
TextConfidences == {40, 85}
Beliefs ==
    { Facts(tc, ps, w[1], w[2], w[3], FALSE) :
         tc \in TextConfidences, ps \in PestLists, w \in WaterFacts }

\* The beliefs of the long-run specification: two pests with a water
\* shortage and a fertilizer need, and a frame with a UI element and nothing
\* to do.
LongRunBeliefs ==
    { Facts(85, <<"TLYA", "TRIPS">>, TRUE, 0, TRUE, FALSE),
      Facts(85, <<>>, FALSE, 0, FALSE, TRUE) }

\* The watering placed in front of the pests.
WaterFirstOrder == <<"water", "parasites", "cancheck">>

\* The execution order of SmartExecutor.execute.
PhaseOrder == <<"parasites", "water", "cancheck">>

\* The phase that follows ph, "finish" after the last.
PhaseAfter(ph) ==
    LET i == CHOOSE j \in 1..Len(PhaseOrder) : PhaseOrder[j] = ph
    IN IF i = Len(PhaseOrder) THEN "finish" ELSE PhaseOrder[i + 1]

\* ---------------------------------------------------------- state ------
VARIABLES
    now,                    \* time.time()
    running,                \* PlantCareBot._running
    paused,                 \* PlantCareBot._paused
    shutdown_requested,     \* PlantCareBot._shutdown_requested
    pc,                     \* where the loop thread stands; "none" before start()
    consecutive_errors,     \* local of _monitor_loop
    bot_stats,              \* PlantCareBot.stats
    analysis,               \* the ScreenAnalysis of the current cycle
    executed,               \* local of execute, then its return value
    idx,                    \* position of execute's loop over parasites_found
    water_plan,             \* locals of execute: water_amount, use_fertilizer
    action_cooldowns,       \* SmartAnalyzer.action_cooldowns
    game_context,           \* SmartAnalyzer.game_context
    watering_point,         \* SmartExecutor.watering_point, 0 for None
    smart_inventory,        \* SmartExecutor.smart_inventory is not None
    current_state,          \* SmartExecutor.current_state
    watering_count,         \* SmartExecutor.watering_count
    last_parasite_treatment,\* SmartExecutor.last_parasite_treatment
    stats,                  \* SmartExecutor.stats
    inputs,                 \* what the input actuator received in this cycle
    events,                 \* the actions attempted in this cycle
    emergency_stops,        \* emergency_stop calls made by the current loop thread
    treated_at,             \* the time of the latest successful treatment, 0 when none
    starts,                 \* loop threads launched so far
    checks,                 \* the permission checks made directly (cooldown-gate specification)
    appended_actions,       \* number of add_action calls made directly (history specification)
    appended_parasites,     \* the names given to add_parasite directly, in call order
    transcript,             \* the words of the text recognised in the current frame
    engine_runs,            \* what the OCR engine did for each configuration in the current frame
    ocr_cache,              \* PerformanceOptimizer.ocr_cache
    cache_timestamps,       \* PerformanceOptimizer.cache_timestamps
    cache_stats,            \* PerformanceOptimizer.stats: cache_hits, cache_misses
    last_lookup,            \* the latest get_cached_ocr call and what it returned
    stale_threads,          \* where the live loop threads of earlier start() calls stand
    join_since,             \* when the stop() in progress began to join, 0 when none is
    cycle_outcomes,         \* how the latest cycles of the current loop thread ended, oldest first
    attempts                \* per pest and for "water": when the latest attempt was made, and the
                            \* smallest distance seen between two attempts, cut at the cooldown

loopVars == <<pc, consecutive_errors, analysis, executed, idx, water_plan>>
botVars == <<running, paused, shutdown_requested, bot_stats, starts>>
executorVars == <<current_state, watering_count, last_parasite_treatment, stats>>
observed == <<inputs, events, emergency_stops, treated_at>>
cacheVars == <<ocr_cache, cache_timestamps, cache_stats, last_lookup>>
threadVars == <<stale_threads, join_since, cycle_outcomes, attempts>>
directVars == <<checks, appended_actions, appended_parasites, transcript, engine_runs,
                cacheVars, threadVars>>
vars == <<now, loopVars, botVars, executorVars, observed, directVars,
          action_cooldowns, game_context, watering_point, smart_inventory>>

NoWaterPlan == [amount |-> 0, fert |-> FALSE]

\* PlantCareBot.__init__ with its SmartAnalyzer, SmartExecutor and SmartInventory.
Init ==
    /\ now = StartTime
    /\ running = FALSE /\ paused = FALSE /\ shutdown_requested = FALSE
    /\ pc = "none"
    /\ consecutive_errors = 0
    /\ bot_stats = NewBotStats
    /\ analysis = EmptyAnalysis
    /\ executed = FALSE /\ idx = 0 /\ water_plan = NoWaterPlan
    /\ action_cooldowns = [k \in {} |-> 0]
    /\ game_context = NewGameContext
    /\ watering_point = 0
    /\ smart_inventory = TRUE
    /\ current_state = "idle"
    /\ watering_count = 0
    /\ last_parasite_treatment = 0
    /\ stats = NewExecutorStats
    /\ inputs = <<>> /\ events = <<>>
    /\ emergency_stops = 0 /\ treated_at = 0
    /\ starts = 0
    /\ checks = <<>> /\ appended_actions = 0 /\ appended_parasites = <<>>
    /\ transcript = <<>> /\ engine_runs = <<>>
    /\ ocr_cache = [k \in {} |-> ""] /\ cache_timestamps = [k \in {} |-> 0]
    /\ cache_stats = [cache_hits |-> 0, cache_misses |-> 0]
    /\ last_lookup = [n |-> 0, key |-> "", at |-> 0, returned |-> ""]
    /\ stale_threads = <<>> /\ join_since = 0
    /\ cycle_outcomes = <<>>
    /\ attempts = [k \in {} |-> [last |-> 0, closest |-> 0]]

\* ------------------------------------------------------ environment ----
\* Where the clock is seen to advance: the sleep between two cycles
\* (time.sleep at the end of a cycle).  A cycle reads time.time() several
\* times; the readings of one cycle fall into the same second.
SleepPoints == {"sleep"}

\* A second of wall clock passes while the thread stands at one of points.
Tick(horizon, points) ==
    /\ pc \in points
    /\ now < StartTime + horizon
    /\ now' = now + 1
    /\ UNCHANGED <<loopVars, botVars, executorVars, observed, directVars,
                   action_cooldowns, game_context, watering_point, smart_inventory>>

\* The latest max_errors entries of the cycle outcomes s.
LatestOutcomes(s) ==
    IF Len(s) > max_errors THEN SubSeq(s, Len(s) - max_errors + 1, Len(s)) ELSE s

\* PlantCareBot.start; a call while running only logs.
Start ==
    /\ ~running
    /\ pc \in {"none", "exited"}
    /\ starts < MaxStarts
    /\ running' = TRUE /\ paused' = FALSE /\ shutdown_requested' = FALSE
    /\ starts' = starts + 1
    /\ pc' = "top" /\ consecutive_errors' = 0
    /\ emergency_stops' = 0 /\ cycle_outcomes' = <<>>
    /\ UNCHANGED <<now, bot_stats, analysis, executed, idx, water_plan, executorVars,
                   inputs, events, treated_at, checks, appended_actions,
                   appended_parasites, transcript, engine_runs, cacheVars,
                   stale_threads, join_since, attempts,
                   action_cooldowns, game_context, watering_point, smart_inventory>>

\* SmartExecutor.set_watering_point, called from the presentation thread
\* before the loop starts or while it sleeps; the point is set once in a run.
SetWateringPoint ==
    /\ watering_point = 0
    /\ pc \in {"none", "sleep"}
    /\ watering_point' = 1
    /\ game_context' = AddAction(game_context, "point")
    /\ UNCHANGED <<now, loopVars, botVars, executorVars, observed, directVars,
                   action_cooldowns, smart_inventory>>

\* ------------------------------------------------- the monitor loop ----
\* analyze_screen's writes to the game context for the facts b.
AnalyzeContext(gc, b) ==
    IF ~b.text THEN gc
    ELSE [AddParasites(gc, b.parasites_found) EXCEPT
              !.current_location = b.current_screen,
              !.water_level = IF b.water_level_low THEN "low" ELSE @]

\* The ScreenAnalysis analyze_screen returns for the facts b.
Analyzed(b) == IF ~b.text THEN b ELSE [b EXCEPT !.confidence = CalculateConfidence(b)]

\* bot.py: if analysis.confidence > 0.3
LoopActs(conf) == conf > ConfidenceThreshold

\* executor.py: if analysis.confidence < 0.3: return False
ExecutorSkips(conf) == conf < ConfidenceThreshold

\* The top of the loop without the while test: the flags are never read.
LoopTopWhileTrue(maxScans) ==
    /\ pc = "top"
    /\ IF paused
       THEN UNCHANGED <<pc, bot_stats>>
       ELSE /\ bot_stats.scans < maxScans
            /\ bot_stats' = [bot_stats EXCEPT !.scans = @ + 1]
            /\ pc' = "analyze"
    /\ UNCHANGED <<now, consecutive_errors, analysis, executed, idx, water_plan,
                   running, paused, shutdown_requested, starts, executorVars, observed,
                   directVars, action_cooldowns, game_context, watering_point,
                   smart_inventory>>

\* The top of the loop without the pause test.
LoopTopIgnoresPause(maxScans) ==
    /\ pc = "top"
    /\ IF ~(running /\ ~shutdown_requested)
       THEN pc' = "exited" /\ UNCHANGED bot_stats
       ELSE /\ bot_stats.scans < maxScans
            /\ bot_stats' = [bot_stats EXCEPT !.scans = @ + 1]
            /\ pc' = "analyze"
    /\ UNCHANGED <<now, consecutive_errors, analysis, executed, idx, water_plan,
                   running, paused, shutdown_requested, starts, executorVars, observed,
                   directVars, action_cooldowns, game_context, watering_point,
                   smart_inventory>>

\* _monitor_loop: the while test, the pause test and the start of a cycle.
LoopTop(maxScans) ==
    /\ pc = "top"
    /\ IF ~(running /\ ~shutdown_requested)
       THEN pc' = "exited" /\ UNCHANGED bot_stats
       ELSE IF paused
       THEN UNCHANGED <<pc, bot_stats>>
       ELSE /\ bot_stats.scans < maxScans
            /\ bot_stats' = [bot_stats EXCEPT !.scans = @ + 1]
            /\ pc' = "analyze"
    /\ UNCHANGED <<now, consecutive_errors, analysis, executed, idx, water_plan,
                   running, paused, shutdown_requested, starts, executorVars, observed,
                   directVars, action_cooldowns, game_context, watering_point,
                   smart_inventory>>

\* analyzer.analyze_screen returns: no frame or no text (the empty analysis),
\* or the facts of one of the beliefs.
AnalyzeScreen(beliefs) ==
    /\ pc = "analyze"
    /\ \E b \in beliefs \cup {EmptyAnalysis} :
          /\ analysis' = Analyzed(b)
          /\ game_context' = AnalyzeContext(game_context, b)
    /\ pc' = "gate"
    /\ UNCHANGED <<now, consecutive_errors, executed, idx, water_plan, botVars,
                   executorVars, observed, directVars, action_cooldowns,
                   watering_point, smart_inventory>>

\* SmartExecutor.emergency_stop: the esc presses received; the first press
\* may raise (pyautogui fail-safe), which leaves the call by an exception.
EmergencyInputs(raised) == IF raised THEN <<>> ELSE <<"esc", "esc", "esc">>

\* An exception escapes the cycle (it is raised inside analyze_screen):
\* the except branch of _monitor_loop.
CycleRaises(maxErrors) ==
    /\ pc = "analyze"
    /\ bot_stats.errors < maxErrors
    /\ consecutive_errors' = consecutive_errors + 1
    /\ bot_stats' = [bot_stats EXCEPT !.errors = @ + 1]
    /\ cycle_outcomes' = LatestOutcomes(Append(cycle_outcomes, "raised"))
    /\ IF consecutive_errors + 1 >= max_errors
       THEN \E raised \in BOOLEAN :
              /\ emergency_stops' = emergency_stops + 1
              /\ current_state' = "error"
              /\ inputs' = inputs \o EmergencyInputs(raised)
              /\ running' = IF raised THEN running ELSE FALSE
              /\ pc' = "exited"
       ELSE /\ pc' = "sleep"
            /\ UNCHANGED <<emergency_stops, current_state, inputs, running>>
    /\ UNCHANGED <<now, analysis, executed, idx, water_plan, paused, shutdown_requested,
                   starts, watering_count, last_parasite_treatment, stats, events,
                   treated_at, checks, appended_actions, appended_parasites,
                   transcript, engine_runs, cacheVars, stale_threads, join_since,
                   attempts, action_cooldowns, game_context, watering_point, smart_inventory>>

\* _monitor_loop: the confidence gate in front of executor.execute.
ConfidenceGate ==
    /\ pc = "gate"
    /\ IF LoopActs(analysis.confidence)
       THEN /\ bot_stats' = [bot_stats EXCEPT
                                !.parasites_found = @ + Len(analysis.parasites_found)]
            /\ pc' = "execute"
       ELSE /\ pc' = "periodic"
            /\ UNCHANGED bot_stats
    /\ UNCHANGED <<now, consecutive_errors, analysis, executed, idx, water_plan,
                   running, paused, shutdown_requested, starts, executorVars, observed,
                   directVars, action_cooldowns, game_context, watering_point,
                   smart_inventory>>

\* The return of execute counted as an action whatever it returned.
AfterExecuteAlwaysCounts ==
    /\ pc = "returned"
    /\ bot_stats' = [bot_stats EXCEPT !.actions = @ + 1]
    /\ pc' = "periodic"
    /\ UNCHANGED <<now, consecutive_errors, analysis, executed, idx, water_plan,
                   running, paused, shutdown_requested, starts, executorVars, observed,
                   directVars, action_cooldowns, game_context, watering_point,
                   smart_inventory>>

\* _monitor_loop after execute returned: count the cycle's action.
AfterExecute ==
    /\ pc = "returned"
    /\ bot_stats' = IF executed THEN [bot_stats EXCEPT !.actions = @ + 1] ELSE bot_stats
    /\ pc' = "periodic"
    /\ UNCHANGED <<now, consecutive_errors, analysis, executed, idx, water_plan,
                   running, paused, shutdown_requested, starts, executorVars, observed,
                   directVars, action_cooldowns, game_context, watering_point,
                   smart_inventory>>

\* The end of a cycle without the reset of the failure count.
CycleCompletesKeepsCount ==
    /\ pc = "periodic"
    /\ consecutive_errors' = consecutive_errors
    /\ pc' = "sleep"
    /\ analysis' = EmptyAnalysis
    /\ executed' = FALSE /\ idx' = 0 /\ water_plan' = NoWaterPlan
    /\ inputs' = <<>> /\ events' = <<>>
    /\ transcript' = <<>> /\ engine_runs' = <<>>
    /\ cycle_outcomes' = LatestOutcomes(Append(cycle_outcomes, "completed"))
    /\ UNCHANGED <<now, botVars, executorVars, emergency_stops, treated_at,
                   checks, appended_actions, appended_parasites, cacheVars,
                   stale_threads, join_since, attempts,
                   action_cooldowns, game_context, watering_point, smart_inventory>>

\* _monitor_loop: the cycle ends without an exception; the next cycle
\* starts with a fresh analysis and fresh locals.
CycleCompletes ==
    /\ pc = "periodic"
    /\ consecutive_errors' = 0
    /\ pc' = "sleep"
    /\ analysis' = EmptyAnalysis
    /\ executed' = FALSE /\ idx' = 0 /\ water_plan' = NoWaterPlan
    /\ inputs' = <<>> /\ events' = <<>>
    /\ transcript' = <<>> /\ engine_runs' = <<>>
    /\ cycle_outcomes' = LatestOutcomes(Append(cycle_outcomes, "completed"))
    /\ UNCHANGED <<now, botVars, executorVars, emergency_stops, treated_at,
                   checks, appended_actions, appended_parasites, cacheVars,
                   stale_threads, join_since, attempts,
                   action_cooldowns, game_context, watering_point, smart_inventory>>

\* _monitor_loop: time.sleep returns and the loop goes back to its while test.
Wake ==
    /\ pc = "sleep"
    /\ pc' = "top"
    /\ UNCHANGED <<now, consecutive_errors, analysis, executed, idx, water_plan, botVars,
                   executorVars, observed, directVars, action_cooldowns, game_context,
                   watering_point, smart_inventory>>

\* ------------------------------------------------ SmartExecutor.execute -
\* The configured amount whatever was parsed.
DefaultAmount(a) == watering_amount

\* water_amount = analysis.water_amount_needed or config.watering_amount
WaterAmount(a) == IF a.water_amount_needed # 0 THEN a.water_amount_needed ELSE watering_amount

\* recently_treated = (time.time() - self.last_parasite_treatment) < 10
RecentlyTreated(last, t) == t - last < RecentTreatmentWindow

\* The belief's need alone, whatever was treated.
UseFertilizerWhenNeeded(a, last, t) == a.needs_fertilizer

\* use_fertilizer = analysis.needs_fertilizer and not recently_treated
UseFertilizer(a, last, t) == a.needs_fertilizer /\ ~RecentlyTreated(last, t)

\* if analysis.water_level_low or analysis.water_amount_needed
WateringWanted(a) == a.water_level_low \/ a.water_amount_needed # 0

\* if self.watering_count > 0 and self.watering_count % self.water_check_interval == 0
CanCheckDue(count) == count > 0 /\ count % water_check_interval = 0

\* The results of _handle_parasite_smart and of _water_plant_smart: the
\* shortcut works ("quick"), the key press raises and the inventory click
\* works ("inventory", with a smart inventory only), both tiers fail
\* ("fail"); the watering runs to its end ("ok") or an input call raises
\* ("raise").
AllTreatmentOutcomes == {"quick", "inventory", "fail"}
AllWateringOutcomes == {"ok", "raise"}
TreatmentOutcomes(inventory) ==
    {"quick", "fail"} \cup (IF inventory THEN {"inventory"} ELSE {})

\* _try_quick_chemical's return value.
QuickTier(outcome) == outcome = "quick"

\* smart_inventory.click_chemical's return value; it is called only after
\* the shortcut failed and only with a smart inventory.
InventoryTier(outcome, inventory) == inventory /\ outcome = "inventory"

\* The treatment reported by the shortcut alone.
QuickOnlySucceeds(outcome, inventory) == QuickTier(outcome)

\* _handle_parasite_smart: its return value.
TreatmentSucceeds(outcome, inventory) ==
    QuickTier(outcome) \/ (~QuickTier(outcome) /\ InventoryTier(outcome, inventory))

\* _handle_parasite_smart: what the input actuator receives for pest p when
\* the shortcut works ("quick"), when the key press raises and the inventory
\* click works ("inventory"), and when both tiers fail ("fail").
TreatmentInputs(p, outcome) ==
    IF outcome = "quick" THEN <<PestKey(p), "amount">>
    ELSE IF outcome = "inventory" THEN <<"click", "amount">>
    ELSE <<>>

\* _water_plant_smart: what the input actuator receives when the calls work
\* ("ok") and when the first key press raises ("raise").
WateringInputs(point, outcome) ==
    IF outcome = "raise" THEN <<>>
    ELSE <<"1", "amount">> \o (IF point # 0 THEN <<"click">> ELSE <<>>)

\* _water_plant_smart: its return value.
WateringSucceeds(point, outcome) == outcome = "ok" /\ point # 0

\* execute: the confidence gate and the start of the first phase.
ExecuteEnter ==
    /\ pc = "execute"
    /\ executed' = FALSE
    /\ IF ExecutorSkips(analysis.confidence)
       THEN pc' = "returned" /\ UNCHANGED idx
       ELSE pc' = PhaseOrder[1] /\ idx' = 1
    /\ UNCHANGED <<now, consecutive_errors, analysis, water_plan, botVars, executorVars,
                   observed, directVars, action_cooldowns, game_context, watering_point,
                   smart_inventory>>

\* execute: the loop over parasites_found reaches the next pest and asks
\* the cooldown gate.
ParasiteCheck ==
    /\ pc = "parasites"
    /\ idx <= Len(analysis.parasites_found)
    /\ LET p == analysis.parasites_found[idx]
           k == ParasiteActionKey(p)
       IN /\ action_cooldowns' = CooldownsAfter(action_cooldowns, k, ParasiteCooldown, now)
          /\ IF CanPerformAction(action_cooldowns, k, ParasiteCooldown, now)
             THEN /\ current_state' = "treating_parasite"
                  /\ pc' = "treating"
                  /\ UNCHANGED idx
             ELSE /\ idx' = idx + 1
                  /\ UNCHANGED <<pc, current_state>>
    /\ UNCHANGED <<now, consecutive_errors, analysis, executed, water_plan, botVars,
                   watering_count, last_parasite_treatment, stats, observed, directVars,
                   game_context, watering_point, smart_inventory>>

\* The record of attempts after an attempt for k, whose cooldown is c, at
\* time t.
AttemptNoted(log, k, c, t) ==
    [x \in DOMAIN log \cup {k} |->
        IF x # k THEN log[x]
        ELSE [last |-> t,
              closest |-> IF k \in DOMAIN log
                          THEN Min(log[k].closest, Min(t - log[k].last, c))
                          ELSE c]]

\* execute: _handle_parasite_smart for the granted pest, and the counting
\* of its result.
HandleParasite(outcomes) ==
    /\ pc = "treating"
    /\ LET p == analysis.parasites_found[idx] IN
       \E outcome \in outcomes \cap TreatmentOutcomes(smart_inventory) :
          LET ok == TreatmentSucceeds(outcome, smart_inventory) IN
          /\ inputs' = inputs \o TreatmentInputs(p, outcome)
          /\ events' = Append(events, [kind |-> "treat", who |-> p, ok |-> ok,
                                       amount |-> AvgAmount(p), fert |-> FALSE])
          /\ game_context' =
                IF ok THEN [AddAction(game_context, p) EXCEPT !.plants_treated = @ + 1]
                ELSE game_context
          /\ stats' = IF ok THEN [stats EXCEPT !.parasites_treated = @ + 1,
                                                !.total_actions = @ + 1]
                       ELSE [stats EXCEPT !.failed_actions = @ + 1]
          /\ executed' = (executed \/ ok)
          /\ last_parasite_treatment' = IF ok THEN now ELSE last_parasite_treatment
          /\ treated_at' = IF ok THEN now ELSE treated_at
          /\ attempts' = AttemptNoted(attempts, p, ParasiteCooldown, now)
    /\ idx' = idx + 1
    /\ pc' = "parasites"
    /\ UNCHANGED <<now, consecutive_errors, analysis, water_plan, botVars, current_state,
                   watering_count, emergency_stops, checks, appended_actions,
                   appended_parasites, transcript, engine_runs, cacheVars,
                   stale_threads, join_since, cycle_outcomes, action_cooldowns,
                   watering_point, smart_inventory>>

\* execute: the loop over parasites_found is exhausted.
ParasitesDone ==
    /\ pc = "parasites"
    /\ idx > Len(analysis.parasites_found)
    /\ pc' = PhaseAfter("parasites")
    /\ UNCHANGED <<now, consecutive_errors, analysis, executed, idx, water_plan, botVars,
                   executorVars, observed, directVars, action_cooldowns, game_context,
                   watering_point, smart_inventory>>

\* execute: the watering branch up to the call of _water_plant_smart.
WaterCheck ==
    /\ pc = "water"
    /\ IF WateringWanted(analysis)
       THEN /\ action_cooldowns' = CooldownsAfter(action_cooldowns, "water", WaterCooldown, now)
            /\ IF CanPerformAction(action_cooldowns, "water", WaterCooldown, now)
               THEN /\ current_state' = "watering"
                    /\ water_plan' = [amount |-> WaterAmount(analysis),
                                      fert |-> UseFertilizer(analysis, last_parasite_treatment, now)]
                    /\ pc' = "watering"
               ELSE /\ pc' = PhaseAfter("water")
                    /\ UNCHANGED <<current_state, water_plan>>
       ELSE /\ pc' = PhaseAfter("water")
            /\ UNCHANGED <<action_cooldowns, current_state, water_plan>>
    /\ UNCHANGED <<now, consecutive_errors, analysis, executed, idx, botVars,
                   watering_count, last_parasite_treatment, stats, observed, directVars,
                   game_context, watering_point, smart_inventory>>

\* execute: _water_plant_smart and the counting of its result.
WaterPlant(outcomes) ==
    /\ pc = "watering"
    /\ \E outcome \in outcomes :
          LET ok == WateringSucceeds(watering_point, outcome) IN
          /\ inputs' = inputs \o WateringInputs(watering_point, outcome)
          /\ events' = Append(events, [kind |-> "water", who |-> "", ok |-> ok,
                                       amount |-> water_plan.amount, fert |-> water_plan.fert])
          /\ game_context' =
                IF ok THEN [AddAction(game_context, "water") EXCEPT !.plants_watered = @ + 1]
                ELSE game_context
          /\ stats' = IF ok THEN [stats EXCEPT !.waterings_performed = @ + 1,
                                                !.total_actions = @ + 1]
                       ELSE [stats EXCEPT !.failed_actions = @ + 1]
          /\ executed' = (executed \/ ok)
          /\ watering_count' = IF ok THEN watering_count + 1 ELSE watering_count
    /\ attempts' = AttemptNoted(attempts, "water", WaterCooldown, now)
    /\ pc' = PhaseAfter("water")
    /\ UNCHANGED <<now, consecutive_errors, analysis, idx, water_plan, botVars,
                   current_state, last_parasite_treatment, emergency_stops, treated_at,
                   checks, appended_actions, appended_parasites, transcript,
                   engine_runs, cacheVars, stale_threads, join_since, cycle_outcomes,
                   action_cooldowns, watering_point, smart_inventory>>

\* execute: the watering-can check, _check_and_refill_water and _refill_water.
CanCheck ==
    /\ pc = "cancheck"
    /\ IF CanCheckDue(watering_count) /\ smart_inventory
       THEN \E status \in {"empty", "full", "none"} :
              /\ events' = Append(events, [kind |-> "cancheck", who |-> status, ok |-> TRUE,
                                           amount |-> 0, fert |-> FALSE])
              /\ current_state' = IF status = "empty" THEN "refilling_water"
                                                        ELSE "checking_water"
              /\ stats' = IF status = "empty" THEN [stats EXCEPT !.water_refills = @ + 1]
                                               ELSE stats
              /\ game_context' =
                    [(IF status = "empty" THEN AddAction(game_context, "refill")
                                          ELSE game_context)
                        EXCEPT !.water_checks = @ + 1]
       ELSE UNCHANGED <<events, current_state, stats, game_context>>
    /\ pc' = PhaseAfter("cancheck")
    /\ UNCHANGED <<now, consecutive_errors, analysis, executed, idx, water_plan, botVars,
                   watering_count, last_parasite_treatment, inputs, emergency_stops,
                   treated_at, directVars, action_cooldowns, watering_point,
                   smart_inventory>>

\* execute: if executed: current_state = IDLE; return executed.
ExecuteFinish ==
    /\ pc = "finish"
    /\ current_state' = IF executed THEN "idle" ELSE current_state
    /\ pc' = "returned"
    /\ UNCHANGED <<now, consecutive_errors, analysis, executed, idx, water_plan, botVars,
                   watering_count, last_parasite_treatment, stats, observed, directVars,
                   action_cooldowns, game_context, watering_point, smart_inventory>>

\* ------------------------------------------- the loop specification ----
Next ==
    \/ Tick(Horizon, SleepPoints)
    \/ Start
    \/ SetWateringPoint
    \/ LoopTop(MaxScans)
    \/ AnalyzeScreen(Beliefs)
    \/ CycleRaises(1)
    \/ ConfidenceGate
    \/ ExecuteEnter
    \/ ParasiteCheck
    \/ HandleParasite(AllTreatmentOutcomes)
    \/ ParasitesDone
    \/ WaterCheck
    \/ WaterPlant(AllWateringOutcomes)
    \/ CanCheck
    \/ ExecuteFinish
    \/ AfterExecute
    \/ CycleCompletes
    \/ Wake

Spec == Init /\ [][Next]_vars

\* Where the loop thread holds the belief of the current cycle.
InCycle ==
    pc \in {"gate", "execute", "parasites", "treating", "water", "watering",
            "cancheck", "finish", "returned", "periodic"}

\* C3: in a cycle whose belief has confidence below 0.3 no step of the cycle
\* starts a treatment, a watering or a watering-can check, sends a key press
\* or a click, consumes a cooldown, or changes the executor's state and
\* counters.
C3_LowConfidenceNoAction ==
    [][ (InCycle /\ analysis.confidence < 30)
          => /\ pc' \notin {"treating", "watering"}
             /\ events' = <<>> /\ inputs' = <<>>
             /\ UNCHANGED <<action_cooldowns, current_state, watering_count,
                            last_parasite_treatment, stats>> ]_vars

\* A cycle ends whose belief asked for action (a parsed water amount, the
\* water cooldown open) with confidence 0.2, below the threshold.
C3_Witness ==
    /\ pc = "periodic"
    /\ analysis.confidence = 20
    /\ analysis.water_amount_needed # 0
    /\ now - (IF "water" \in DOMAIN action_cooldowns THEN action_cooldowns["water"] ELSE 0) >= 3

\* The cooldown entry of key k, 0 for a key never granted.
Stamp(k) == IF k \in DOMAIN action_cooldowns THEN action_cooldowns[k] ELSE 0

\* The cooldown key of pest p as the executor is to build it.
KeyOfPest(p) == [TLYA |-> "parasite_TLYA", TRIPS |-> "parasite_TRIPS"][p]

\* The pest p has a treatment attempt among the cycle's events.
Attempted(p) == \E i \in 1..Len(events) : events[i].kind = "treat" /\ events[i].who = p

\* C7: in a cycle that passed the confidence gate, when the executor reaches
\* a detected pest whose key "parasite_<name>" was last granted 5 s ago or
\* earlier, it starts that pest's treatment and the attempt follows, whatever
\* was treated before in the cycle; a pest on cooldown is passed over and the
\* loop goes on to the next pest; the step changes no other key's entry; and
\* the executor leaves the pests only after it has reached every one of them.
C7_EveryPermittedPestTreated ==
    /\ [][ (pc = "parasites" /\ idx <= Len(analysis.parasites_found))
             => LET p == analysis.parasites_found[idx]
                IN /\ IF now - Stamp(KeyOfPest(p)) >= 5
                      THEN pc' = "treating" /\ idx' = idx
                      ELSE pc' = "parasites" /\ idx' = idx + 1 /\ events' = events
                   /\ \A k \in (ActionKeys \cup DOMAIN action_cooldowns \cup
                                  DOMAIN action_cooldowns') \ {KeyOfPest(p)} :
                         /\ k \in DOMAIN action_cooldowns' <=> k \in DOMAIN action_cooldowns
                         /\ k \in DOMAIN action_cooldowns
                               => action_cooldowns'[k] = action_cooldowns[k] ]_vars
    /\ [][ pc = "treating"
             => /\ events' = Append(events, events'[Len(events')])
                /\ events'[Len(events')].kind = "treat"
                /\ events'[Len(events')].who = analysis.parasites_found[idx]
                /\ pc' = "parasites" /\ idx' = idx + 1 ]_vars
    /\ [](pc \in {"water", "watering", "cancheck", "finish", "returned"}
             => idx = Len(analysis.parasites_found) + 1)

\* Two pests were detected; the first, on cooldown from the cycle before,
\* was passed over and the second was treated in the same cycle.
C7_Witness ==
    /\ pc = "water"
    /\ Len(analysis.parasites_found) = 2
    /\ ~Attempted(analysis.parasites_found[1])
    /\ Attempted(analysis.parasites_found[2])

\* The cycle's waterings: the positions of its watering attempts in events.
WaterEvents == {i \in 1..Len(events) : events[i].kind = "water"}

\* C8: in a cycle that passed the confidence gate, when the executor reaches
\* the watering branch it starts a watering exactly when (the shortage flag
\* is set or an amount was parsed) and "water" was last granted 3 s ago or
\* earlier; the started watering is attempted with the parsed amount when
\* there is one and with the default of 5.0 l otherwise; and a cycle holds
\* no watering attempt that did not start this way.
C8_WateringRule ==
    /\ [][ pc = "water"
             => IF (analysis.water_level_low \/ analysis.water_amount_needed # 0)
                   /\ now - Stamp("water") >= 3
                THEN pc' = "watering"
                ELSE pc' # "watering" /\ events' = events /\ inputs' = inputs ]_vars
    /\ [][ pc = "watering"
             => /\ events' = Append(events, events'[Len(events')])
                /\ events'[Len(events')].kind = "water"
                /\ events'[Len(events')].amount =
                      (IF analysis.water_amount_needed # 0
                       THEN analysis.water_amount_needed ELSE 50) ]_vars
    /\ [][ pc # "watering" => WaterEvents' \subseteq WaterEvents ]_vars

\* A watering was attempted with the parsed amount of 2.5 l, the shortage
\* flag not set.
C8_Witness ==
    /\ pc = "cancheck"
    /\ analysis.water_amount_needed = 25
    /\ ~analysis.water_level_low
    /\ \E i \in WaterEvents : events[i].amount = 25

\* C10: a watering with no watering point configured fails without sending
\* a key press or a click; plants_watered, waterings_performed and
\* watering_count stay unchanged and failed_actions grows by one.
C10_NoPointNoInput ==
    [][ (pc = "watering" /\ watering_point = 0)
          => /\ inputs' = inputs
             /\ ~events'[Len(events')].ok
             /\ game_context'.plants_watered = game_context.plants_watered
             /\ stats'.waterings_performed = stats.waterings_performed
             /\ watering_count' = watering_count
             /\ stats'.failed_actions = stats.failed_actions + 1 ]_vars

\* With no watering point the cycle's only action, a watering, has failed
\* and the actuator has received the watering-mode key and the amount.
C10_Witness ==
    /\ watering_point = 0
    /\ Len(events) = 1 /\ events[1].kind = "water" /\ ~events[1].ok
    /\ inputs = <<"1", "amount">>
    /\ stats.failed_actions = 1 /\ stats.waterings_performed = 0
    /\ watering_count = 0 /\ game_context.plants_watered = 0

\* What the input actuator received in the step just taken.
NewInputs == SubSeq(inputs', Len(inputs) + 1, Len(inputs'))

\* C11: a treatment succeeds exactly when the shortcut key was pressed or,
\* failing that, the inventory click was made; a success counts the
\* treatment and stamps its time; when both tiers fail nothing is sent (no
\* dosage), failed_actions grows by one, parasites_treated, plants_treated
\* and the last-treatment time stay as they were, and the executor goes on
\* to the next pest; no pest is attempted twice in one cycle.
C11_TwoTierTreatment ==
    /\ [][ pc = "treating"
             => LET p == analysis.parasites_found[idx]
                    e == events'[Len(events')]
                    shortcut == NewInputs # <<>> /\ NewInputs[1] = (IF p = "TLYA" THEN "2" ELSE "8")
                    click == NewInputs # <<>> /\ NewInputs[1] = "click"
                IN /\ e.kind = "treat" /\ e.who = p
                   /\ e.ok <=> (shortcut \/ click)
                   /\ pc' = "parasites" /\ idx' = idx + 1
                   /\ IF e.ok
                      THEN /\ stats'.parasites_treated = stats.parasites_treated + 1
                           /\ game_context'.plants_treated = game_context.plants_treated + 1
                           /\ last_parasite_treatment' = now
                           /\ stats'.failed_actions = stats.failed_actions
                      ELSE /\ NewInputs = <<>>
                           /\ stats'.failed_actions = stats.failed_actions + 1
                           /\ stats'.parasites_treated = stats.parasites_treated
                           /\ game_context'.plants_treated = game_context.plants_treated
                           /\ last_parasite_treatment' = last_parasite_treatment ]_vars
    /\ [](\A i, j \in 1..Len(events) :
             (i # j /\ events[i].kind = "treat" /\ events[j].kind = "treat")
                => events[i].who # events[j].who)

\* Both tiers failed for the first pest of a cycle; the second pest was
\* treated through the inventory and a watering followed.
C11_Witness ==
    /\ Len(events) = 3
    /\ events[1].kind = "treat" /\ ~events[1].ok
    /\ events[2].kind = "treat" /\ events[2].ok
    /\ events[3].kind = "water"
    /\ inputs[1] = "click"
    /\ stats.failed_actions >= 1

\* C22: whenever execute has returned and no emergency stop was made, the
\* executor state is IDLE, whether the actions succeeded, failed or were
\* skipped; the state is ERROR only after an emergency stop.
C22_IdleAfterExecute ==
    /\ (pc = "returned" /\ emergency_stops = 0) => current_state = "idle"
    /\ current_state = "error" => emergency_stops > 0

\* ---------------------------------------- the long-run specification ----
\* The loop with few beliefs over many cycles; treatments by the shortcut,
\* waterings that run to their end.
NextLongRun ==
    \/ Tick(LongHorizon, SleepPoints)
    \/ Start
    \/ SetWateringPoint
    \/ LoopTop(LongScans)
    \/ AnalyzeScreen(LongRunBeliefs)
    \/ ConfidenceGate
    \/ ExecuteEnter
    \/ ParasiteCheck
    \/ HandleParasite({"quick", "fail"})
    \/ ParasitesDone
    \/ WaterCheck
    \/ WaterPlant({"ok"})
    \/ CanCheck
    \/ ExecuteFinish
    \/ AfterExecute
    \/ CycleCompletes
    \/ Wake

SpecLongRun == Init /\ [][NextLongRun]_vars

\* ------------------------------------ the cooldown-gate specification ----
\* can_perform_action called directly, with any key and with the default
\* cooldown (0, None) or 5 s, while no loop runs.
GateCooldowns == {0, ParasiteCooldown}

CheckPermission ==
    /\ pc = "none"
    /\ Len(checks) < MaxChecks
    /\ \E k \in ActionKeys, c \in GateCooldowns :
          /\ action_cooldowns' = CooldownsAfter(action_cooldowns, k, c, now)
          /\ checks' = Append(checks, [key |-> k, cooldown |-> c, at |-> now,
                                       granted |-> CanPerformAction(action_cooldowns, k, c, now)])
    /\ UNCHANGED <<now, loopVars, botVars, executorVars, observed, appended_actions,
                   appended_parasites, transcript, engine_runs, cacheVars, threadVars,
                   game_context, watering_point, smart_inventory>>

NextGate ==
    \/ Tick(GateHorizon, {"none"})
    \/ CheckPermission

SpecGate == Init /\ [][NextGate]_vars

\* The time of the latest grant for key k among the first n checks, 0 when none.
LastGrant(k, n) ==
    LET grants == {j \in 1..n : checks[j].key = k /\ checks[j].granted}
    IN IF grants = {} THEN 0
       ELSE checks[CHOOSE j \in grants : \A j2 \in grants : j2 <= j].at

\* C1: a check for key K with cooldown c at time T is granted exactly when
\* T minus the time of K's latest grant (0 when K was never granted) is at
\* least c, the default of 3 s standing in for no cooldown; and the table
\* holds for every key the time of its latest grant.
C1_CooldownGate ==
    /\ \A i \in 1..Len(checks) :
          LET e == checks[i]
              c == IF e.cooldown = 0 THEN 3 ELSE e.cooldown
          IN e.granted <=> (e.at - LastGrant(e.key, i - 1) >= c)
    /\ \A k \in ActionKeys :
          (IF k \in DOMAIN action_cooldowns THEN action_cooldowns[k] ELSE 0)
              = LastGrant(k, Len(checks))

\* Three checks of one key: granted, denied inside the window, granted
\* again once the window has elapsed.
C1_Witness ==
    /\ Len(checks) = 3
    /\ checks[1].key = checks[2].key /\ checks[2].key = checks[3].key
    /\ checks[1].granted /\ ~checks[2].granted /\ checks[3].granted
    /\ checks[2].at > checks[1].at
    /\ checks[3].at - checks[1].at = 5

\* ----------------------------------------- the history specification ----
\* add_action and add_parasite called directly, in any interleaving, while
\* no loop runs.  The text of the n-th add_action call is n.
DirectAddAction ==
    /\ pc = "none"
    /\ appended_actions < MaxActionAppends
    /\ appended_actions' = appended_actions + 1
    /\ game_context' = AddAction(game_context, appended_actions + 1)
    /\ UNCHANGED <<now, loopVars, botVars, executorVars, observed, checks,
                   appended_parasites, transcript, engine_runs, cacheVars, threadVars,
                   action_cooldowns, watering_point, smart_inventory>>

DirectAddParasite ==
    /\ pc = "none"
    /\ Len(appended_parasites) < MaxParasiteAppends
    /\ \E name \in PestNames :
          /\ appended_parasites' = Append(appended_parasites, name)
          /\ game_context' = AddParasite(game_context, name)
    /\ UNCHANGED <<now, loopVars, botVars, executorVars, observed, checks,
                   appended_actions, transcript, engine_runs, cacheVars, threadVars,
                   action_cooldowns, watering_point, smart_inventory>>

NextHistory ==
    \/ DirectAddAction
    \/ DirectAddParasite

SpecHistory == Init /\ [][NextHistory]_vars

\* The last Min(cap, Len(log)) entries of log, in order.
LatestOf(log, cap) ==
    SubSeq(log, Len(log) - Min(cap, Len(log)) + 1, Len(log))

\* C2: after any sequence of add_action and add_parasite calls the action
\* history holds at most 20 entries and the pest history at most 10, and
\* each is exactly the most recently appended entries in insertion order.
C2_HistoryCaps ==
    /\ Len(game_context.recent_actions) <= 20
    /\ Len(game_context.recent_parasites) <= 10
    /\ game_context.recent_actions = LatestOf([n \in 1..appended_actions |-> n], 20)
    /\ game_context.recent_parasites = LatestOf(appended_parasites, 10)

\* Both histories have evicted: 22 actions and 11 pests were appended, the
\* oldest pest differing from the one that followed it.
C2_Witness ==
    /\ appended_actions = 22
    /\ Len(appended_parasites) = 11
    /\ appended_parasites[1] # appended_parasites[2]
    /\ Len(game_context.recent_actions) = 20
    /\ Len(game_context.recent_parasites) = 10

\* C4: every watering of a cycle is made with fertilizer exactly when the
\* belief says fertilizer is needed and no treatment has succeeded in the
\* 10 s before it (a treatment exactly 10 s old no longer counts).
C4_FertilizerRule ==
    \A i \in WaterEvents :
       events[i].fert <=> (analysis.needs_fertilizer
                           /\ (treated_at = 0 \/ now - treated_at >= 10))

\* A watering that needs fertilizer runs with it, 10 s or more after the
\* latest successful treatment.
C4_Witness ==
    /\ treated_at # 0 /\ now - treated_at >= 10
    /\ \E i \in WaterEvents : events[i].fert /\ events[i].ok

\* The place of an action kind in the priority order.
Rank(kind) == [treat |-> 1, water |-> 2, cancheck |-> 3][kind]

\* C6: among the actions of one cycle every treatment attempt comes before
\* the watering and the watering-can check after the watering; and a
\* watering or a can check starts only after the executor has been through
\* every detected pest.
C6_PriorityOrder ==
    /\ \A i, j \in 1..Len(events) :
          i < j => Rank(events[i].kind) <= Rank(events[j].kind)
    /\ pc \in {"watering", "cancheck"} => idx = Len(analysis.parasites_found) + 1
    /\ pc = "cancheck" => \A i \in 1..Len(events) : events[i].kind # "cancheck"

\* One cycle held two treatments, then a watering, then a can check.
C6_Witness ==
    /\ Len(events) = 4
    /\ events[1].kind = "treat" /\ events[2].kind = "treat"
    /\ events[3].kind = "water"
    /\ events[4].kind = "cancheck"

\* C9: the number of watering-can checks never exceeds the number of
\* successful waterings divided by 5, and a can check is made only in a
\* cycle whose successful watering brought the count to a multiple of 5.
C9_CanCheckEveryFifth ==
    /\ game_context.water_checks <= stats.waterings_performed \div 5
    /\ \A i \in 1..Len(events) :
          events[i].kind = "cancheck"
             => /\ watering_count % 5 = 0
                /\ \E j \in 1..(i - 1) : events[j].kind = "water" /\ events[j].ok

\* After five successful waterings the can was checked twice: in the cycle
\* of the fifth watering and again in a cycle that watered nothing.
C9_Witness ==
    /\ stats.waterings_performed = 5
    /\ game_context.water_checks = 2
    /\ Len(events) = 1 /\ events[1].kind = "cancheck"

\* ----------------------------------------- the failure specification ----
\* The loop over frames without text, any of its cycles raising.
NextFail ==
    \/ Tick(FailHorizon, SleepPoints)
    \/ Start
    \/ LoopTop(FailScans)
    \/ AnalyzeScreen({})
    \/ CycleRaises(FailErrors)
    \/ ConfidenceGate
    \/ CycleCompletes
    \/ Wake

SpecFail == Init /\ [][NextFail]_vars

\* C5: once 5 consecutive cycles have raised and the loop has ended, the
\* executor's emergency_stop was called exactly once, _running is False and
\* the executor state is ERROR.
C5_FiveFailuresStop ==
    (pc = "exited" /\ consecutive_errors >= 5)
       => (emergency_stops = 1 /\ ~running /\ current_state = "error")

\* The fifth consecutive failure ended the loop thread inside
\* emergency_stop: no esc press was received and _running is still True.
C5_Witness ==
    /\ pc = "exited" /\ consecutive_errors = 5
    /\ emergency_stops = 1 /\ current_state = "error"
    /\ inputs = <<>>
    /\ running

\* -------------------------------------- the confidence specification ----
\* _calculate_confidence applied to beliefs whose OCR confidence lies on,
\* just above and between the band limits, with every combination of the
\* four other signals.
BandProbes == {0, 30, 31, 50, 51, 70, 71, 100}
ConfidenceInputs ==
    { Facts(tc, ps, low, amt, FALSE, ui) :
         tc \in BandProbes, ps \in PestLists, low \in BOOLEAN, amt \in {0, 25},
         ui \in BOOLEAN }

DirectScore ==
    /\ pc = "none"
    /\ \E b \in ConfidenceInputs : analysis' = Analyzed(b)
    /\ UNCHANGED <<now, pc, consecutive_errors, executed, idx, water_plan, botVars,
                   executorVars, observed, directVars, action_cooldowns, game_context,
                   watering_point, smart_inventory>>

SpecConfidence == Init /\ [][DirectScore]_vars

\* The score the point scheme gives belief a: every term is added, in the
\* order of the scheme and in binary64, a signal that is off adding zero.
SchemeScore(a) ==
    LET band == IF a.text_confidence > 70 THEN 30
                ELSE IF a.text_confidence > 50 THEN 20
                ELSE IF a.text_confidence > 30 THEN 10 ELSE 0
        on(flag, points) == IF flag THEN points ELSE 0
        sum == FloatAdd(FloatAdd(FloatAdd(FloatAdd(band,
                   on(a.parasites_found # <<>>, 40)),
                   on(a.water_level_low, 20)),
                   on(a.water_amount_needed # 0, 10)),
                   on(a.ui_elements_detected, 10))
    IN IF sum < 100 THEN sum ELSE 100

\* C12: the confidence of every scored belief is min(1.0, ocr_band +
\* 0.4*[pest] + 0.2*[shortage] + 0.1*[amount] + 0.1*[UI element]) with the
\* band 0.3, 0.2, 0.1 or 0 for an OCR confidence above 0.7, 0.5, 0.3 or not,
\* and lies in [0, 1].
C12_ConfidenceScheme ==
    analysis.text =>
       /\ analysis.confidence = SchemeScore(analysis)
       /\ analysis.confidence >= 0 /\ analysis.confidence <= 100

\* Every signal is on with the best OCR band: the sum of 1.1 is capped at 1.
C12_Witness ==
    /\ analysis.text /\ analysis.text_confidence = 71
    /\ analysis.parasites_found # <<>> /\ analysis.water_level_low
    /\ analysis.water_amount_needed # 0 /\ analysis.ui_elements_detected
    /\ analysis.confidence = 100

\* Belief b has every signal of belief a at least as strongly: an OCR
\* confidence not below, and each of the four flags on where a has it on.
SignalsAtLeast(a, b) ==
    /\ b.text_confidence >= a.text_confidence
    /\ (a.parasites_found # <<>>) => (b.parasites_found # <<>>)
    /\ a.water_level_low => b.water_level_low
    /\ (a.water_amount_needed # 0) => (b.water_amount_needed # 0)
    /\ a.ui_elements_detected => b.ui_elements_detected

\* C13: the confidence never falls when a signal rises: a belief whose OCR
\* confidence is not lower and whose pest, shortage, amount and UI signals
\* are on wherever those of the scored belief are, scores at least as much.
C13_ConfidenceMonotone ==
    analysis.text =>
       \A b \in ConfidenceInputs :
          SignalsAtLeast(analysis, b) => Analyzed(b).confidence >= analysis.confidence

\* A scored belief in the lowest band with the shortage signal alone, which
\* a higher band and each further signal strictly improve.
C13_Witness ==
    /\ analysis.text /\ analysis.text_confidence = 31
    /\ analysis.parasites_found = <<>> /\ analysis.water_level_low
    /\ analysis.water_amount_needed = 0 /\ ~analysis.ui_elements_detected
    /\ \E b \in ConfidenceInputs :
          /\ SignalsAtLeast(analysis, b) /\ b.text_confidence = 71
          /\ b.water_amount_needed = 0 /\ ~b.ui_elements_detected
          /\ b.parasites_found = <<>>
          /\ Analyzed(b).confidence > analysis.confidence

\* -------------------------------------- the transcript specification ----
\* analyze_screen on the first recognised frame after construction.  The
\* transcript is " ".join(words): a sequence of words.  A word is compared
\* with the keywords and patterns of the parsers by the tables below.
\* Ukrainian words are written in Latin transliteration; the tables hold
\* what the code computes for the original words.
MaxWords == 4

\* Words of a frame about water, about pests and about the soil.  No word
\* of them holds a fertilizer or UI keyword (_check_fertilizer_need,
\* _detect_ui_elements), nor a keyword of the inventory, shop or menu screen.
WaterWords == {"0.3", "0,5", "10", "10.5", "l", "litr", "vody", "nalyty", "dolyty"}
PestWords == {"tlya", "aphid", "aphis", "trips", "trins", "tripsy"}
SoilWords == {"grunt", "soil", "0", "50", "100", "150", "%"}

Texts(words) == UNION { [1..n -> words] : n \in 0..MaxWords }

\* The words matched as a whole by \d+[\.,]?\d* and by \d+.
NumberWords == {"0.3", "0,5", "10", "10.5", "0", "50", "100", "150"}
DigitWords == {"0", "10", "50", "100", "150"}

\* float(match.group(1).replace(",", ".")), in tenths of a liter.
FloatOf(w) ==
    CASE w = "0.3" -> 3 [] w = "0,5" -> 5 [] w = "10" -> 100 [] w = "10.5" -> 105
      [] w = "0" -> 0 [] w = "50" -> 500 [] w = "100" -> 1000 [] w = "150" -> 1500

\* int(match.group(1))
IntOf(w) ==
    CASE w = "0" -> 0 [] w = "10" -> 10 [] w = "50" -> 50 [] w = "100" -> 100
      [] w = "150" -> 150

\* re.search finds the leftmost match: the least of the indices where a
\* match can start, 0 when there is none.
FirstIndex(starts_at) ==
    IF starts_at = {} THEN 0
    ELSE CHOOSE i \in starts_at : \A j \in starts_at : i <= j

\* re.search of (\d+[\.,]?\d*)\s*<unit>: the first number that stands
\* right before a word beginning with the unit; <<>> without a match.
AmountBefore(t, units) ==
    LET i == FirstIndex({j \in 1..(Len(t) - 1) :
                            t[j] \in NumberWords /\ t[j + 1] \in units})
    IN IF i = 0 THEN <<>> ELSE <<FloatOf(t[i])>>

\* re.search of <keyword>.*?(\d+[\.,]?\d*): the first number after the
\* first occurrence of the keyword; <<>> without a match.
AmountAfter(t, keywords) ==
    LET k == FirstIndex({j \in 1..Len(t) : t[j] \in keywords})
        i == FirstIndex({j \in (k + 1)..Len(t) : t[j] \in NumberWords})
    IN IF k = 0 \/ i = 0 THEN <<>> ELSE <<FloatOf(t[i])>>

\* _analyze_water_status: the four patterns in their order, each with the
\* value of its first match.  "l" begins both "l" and "litr".
PatternValues(t) ==
    <<AmountBefore(t, {"l", "litr"}), AmountBefore(t, {"litr"}),
      AmountAfter(t, {"vody"}), AmountAfter(t, {"nalyty"})>>

\* if 0.5 <= amount <= 10
AmountValid(m) == m # <<>> /\ 5 <= m[1] /\ m[1] <= 100

\* The loop over the patterns leaving at the first matched pattern,
\* whether its value is valid or not.
RECURSIVE FirstMatched(_)
FirstMatched(ms) ==
    IF ms = <<>> THEN 0
    ELSE IF Head(ms) # <<>> THEN (IF AmountValid(Head(ms)) THEN Head(ms)[1] ELSE 0)
    ELSE FirstMatched(Tail(ms))

WaterAmountFirstMatch(t) == FirstMatched(PatternValues(t))

\* The loop over the patterns: info['amount'] is set, and the loop left, at
\* the first pattern whose value is valid; 0 stands for None.
RECURSIVE FirstValid(_)
FirstValid(ms) ==
    IF ms = <<>> THEN 0
    ELSE IF AmountValid(Head(ms)) THEN Head(ms)[1]
    ELSE FirstValid(Tail(ms))

WaterAmountOf(t) == FirstValid(PatternValues(t))

\* _analyze_water_status: a low-water keyword occurs in the text.
LowWaterWords == {"dolyty"}
WaterLow(t) == \E i \in 1..Len(t) : t[i] \in LowWaterWords

\* ParasiteConfig.name_variants (two variants of each entry).
NameVariants(p) == IF p = "TLYA" THEN <<"tlya", "aphid">> ELSE <<"trips", "tripsy">>

\* variant_lower in text
VerbatimPairs ==
    {<<"tlya", "tlya">>, <<"aphid", "aphid">>, <<"trips", "trips">>,
     <<"trips", "tripsy">>, <<"tripsy", "tripsy">>}
VerbatimIn(variant, t) == \E i \in 1..Len(t) : <<variant, t[i]>> \in VerbatimPairs

\* _fuzzy_match: SequenceMatcher(None, pw, tw).ratio() >= 0.8 for a word of
\* the variant and a word of the text.
SimilarPairs ==
    {<<"tlya", "tlya">>, <<"aphid", "aphid">>, <<"aphid", "aphis">>,
     <<"trips", "trips">>, <<"trips", "trins">>, <<"trips", "tripsy">>,
     <<"tripsy", "trips">>, <<"tripsy", "tripsy">>}
FuzzyMatch(variant, t) == \E i \in 1..Len(t) : <<variant, t[i]>> \in SimilarPairs

VariantMatches(variant, t) == VerbatimIn(variant, t) \/ FuzzyMatch(variant, t)

\* The loop over the variants of one entry appending at every matching
\* variant, without the break.
FoundPerVariant(p, t) ==
    LET hits == {i \in 1..Len(NameVariants(p)) : VariantMatches(NameVariants(p)[i], t)}
    IN [i \in 1..Cardinality(hits) |-> p]

\* The loop over the variants of one entry: it appends the entry at the
\* first matching variant and breaks.
FoundForEntry(p, t) ==
    IF \E i \in 1..Len(NameVariants(p)) : VariantMatches(NameVariants(p)[i], t)
    THEN <<p>> ELSE <<>>

\* _detect_parasites: the loop over config.parasites from entry i on.
RECURSIVE DetectFrom(_, _, _)
DetectFrom(i, found, t) ==
    IF i > Len(Catalog) THEN found
    ELSE LET new == FoundForEntry(Catalog[i], t)
             seen == \E j \in 1..Len(found) : found[j] = Catalog[i]
         IN DetectFrom(i + 1, IF seen THEN found ELSE found \o new, t)

DetectParasites(t) == DetectFrom(1, <<>>, t)

\* re.search of <keyword>.*?(\d+)\s*%: the first number right before a "%"
\* after the first occurrence of the keyword; <<>> without a match.
PercentAfter(t, keywords) ==
    LET k == FirstIndex({j \in 1..Len(t) : t[j] \in keywords})
        i == FirstIndex({j \in (k + 1)..(Len(t) - 1) :
                            t[j] \in DigitWords /\ t[j + 1] = "%"})
    IN IF k = 0 \/ i = 0 THEN <<>> ELSE <<IntOf(t[i])>>

\* if 0 <= level <= 100
LevelValid(m) == m # <<>> /\ 0 <= m[1] /\ m[1] <= 100

\* _parse_soil_level: the patterns in their order; <<>> stands for None.
ParseSoilLevel(t) ==
    LET ms == <<PercentAfter(t, {"grunt"}), PercentAfter(t, {"soil"})>>
    IN IF LevelValid(ms[1]) THEN ms[1] ELSE IF LevelValid(ms[2]) THEN ms[2] ELSE <<>>

\* analyze_screen: if soil: analysis.soil_level = soil
SoilLevelKept(soil) == IF soil # <<>> /\ soil[1] # 0 THEN soil ELSE <<>>

\* _detect_screen_type
DetectScreenType(t) ==
    IF \E i \in 1..Len(t) : t[i] = "grunt" THEN "gameplay" ELSE "unknown"

\* analyze_screen from the recognised text on: an empty text returns the
\* default analysis, any other text is parsed and scored.
AnalyzeText(t, tc) ==
    IF t = <<>> THEN EmptyAnalysis
    ELSE Analyzed([Facts(tc, DetectParasites(t), WaterLow(t), WaterAmountOf(t), FALSE, FALSE)
                     EXCEPT !.soil_level = SoilLevelKept(ParseSoilLevel(t)),
                            !.current_screen = DetectScreenType(t)])

ReadTranscript(words) ==
    /\ pc = "none" /\ transcript = <<>>
    /\ \E t \in Texts(words), tc \in TextConfidences :
          /\ transcript' = t
          /\ analysis' = AnalyzeText(t, tc)
          /\ game_context' = AnalyzeContext(game_context, AnalyzeText(t, tc))
    /\ UNCHANGED <<now, pc, consecutive_errors, executed, idx, water_plan, botVars,
                   executorVars, observed, checks, appended_actions, appended_parasites,
                   engine_runs, cacheVars, threadVars, action_cooldowns, watering_point,
                   smart_inventory>>

NextTranscript ==
    \/ ReadTranscript(WaterWords)
    \/ ReadTranscript(PestWords)
    \/ ReadTranscript(SoilWords)

SpecTranscript == Init /\ [][NextTranscript]_vars

\* C14: the water amount of a recognised transcript is absent or within
\* [0.5, 10.0] liters, and it is the value of the first pattern, in the
\* fixed order, whose first match is in range: an out-of-range pattern is
\* passed over and the amount is absent when no pattern is in range.
C14_WaterAmountInRange ==
    transcript # <<>> =>
       LET r == analysis.water_amount_needed
           ms == PatternValues(transcript)
           InRange(k) == ms[k] # <<>> /\ ms[k][1] >= 5 /\ ms[k][1] <= 100
       IN /\ r = 0 \/ (r >= 5 /\ r <= 100)
          /\ \/ r = 0 /\ \A k \in 1..4 : ~InRange(k)
             \/ \E k \in 1..4 :
                   /\ InRange(k) /\ r = ms[k][1]
                   /\ \A j \in 1..(k - 1) : ~InRange(j)

\* "0.3 l vody 10": the liter pattern matches 0.3, which is passed over, and
\* the amount is the 10 liters of the third pattern.
C14_Witness ==
    /\ transcript = <<"0.3", "l", "vody", "10">>
    /\ PatternValues(transcript)[1] = <<3>>
    /\ analysis.water_amount_needed = 100

\* How often pest p stands in the list ps, and where it stands first.
Occurrences(p, ps) == Cardinality({i \in 1..Len(ps) : ps[i] = p})
CatalogIndex(p) == CHOOSE i \in 1..Len(Catalog) : Catalog[i] = p

\* C15: every catalog entry stands in the detected-pest list exactly once
\* when a word of the transcript matches one of its name variants, verbatim
\* or fuzzily, and not at all otherwise, however many variants or words
\* match; the list follows the order of the catalog.
C15_EachPestOnce ==
    transcript # <<>> =>
       LET found == analysis.parasites_found
       IN /\ \A p \in PestNames :
                Occurrences(p, found) =
                   IF \E i \in 1..Len(NameVariants(p)), j \in 1..Len(transcript) :
                         \/ <<NameVariants(p)[i], transcript[j]>> \in VerbatimPairs
                         \/ <<NameVariants(p)[i], transcript[j]>> \in SimilarPairs
                   THEN 1 ELSE 0
          /\ \A i, j \in 1..Len(found) :
                i < j => CatalogIndex(found[i]) < CatalogIndex(found[j])

\* The second catalog entry is named first and twice, once misspelt, and
\* the first entry is named by both of its variants: each is listed once,
\* the first entry first.
C15_Witness ==
    /\ transcript = <<"trins", "tripsy", "aphid", "tlya">>
    /\ analysis.parasites_found = <<"TLYA", "TRIPS">>

\* C16: when a soil pattern of the transcript has a number v within
\* [0, 100], the soil_level of the belief is v, the first such pattern in
\* the order of the patterns deciding, for every v from 0 to 100; a number
\* outside [0, 100] is never reported.
C16_SoilLevelReported ==
    transcript # <<>> =>
       LET ms == <<PercentAfter(transcript, {"grunt"}), PercentAfter(transcript, {"soil"})>>
           InRange(k) == ms[k] # <<>> /\ ms[k][1] >= 0 /\ ms[k][1] <= 100
       IN /\ \A k \in 1..2 :
                (InRange(k) /\ \A j \in 1..(k - 1) : ~InRange(j))
                    => analysis.soil_level = ms[k]
          /\ analysis.soil_level # <<>> =>
                (analysis.soil_level[1] >= 0 /\ analysis.soil_level[1] <= 100)

\* ------------------------------------- the recognition specification ----
\* The monitor loop with _extract_text_enhanced spelled out: the OCR engine
\* is run once for each configuration and either raises or returns words
\* with their confidences.  The cache lookup before the runs never hits: the
\* results are stored under another key than the one looked up.
RecognitionHorizon == 1
RecognitionScans == 1

NumConfigs == 4           \* analyzer.py:331  the four configurations
ConfidenceFloor == 30     \* analyzer.py:358  conf > 30

Raised == [raised |-> TRUE, words |-> <<>>]
Returned(ws) == [raised |-> FALSE, words |-> ws]
EngineOutputs ==
    {Raised, Returned(<<>>),
     Returned(<<[text |-> "tlya", conf |-> 30]>>),
     Returned(<<[text |-> "", conf |-> 95]>>),
     Returned(<<[text |-> "tlya", conf |-> 85]>>),
     Returned(<<[text |-> "dolyty", conf |-> 40]>>)}

\* if conf > 30 and text
KeptWord(w) == w.conf > ConfidenceFloor /\ w.text # ""
KeptWords(ws) == SelectSeq(ws, KeptWord)

RECURSIVE SumConf(_)
SumConf(ws) == IF ws = <<>> THEN 0 ELSE Head(ws).conf + SumConf(Tail(ws))
\* np.mean(confidences), in percent (whole percents).
MeanConf(ws) == SumConf(ws) \div Len(ws)

NoText == [text |-> <<>>, conf |-> 0]

\* The loop over the configurations without the inner try: the first
\* exception of the engine reaches the outer except, which returns no text.
RECURSIVE BestUntilRaise(_, _, _)
BestUntilRaise(runs, i, best) ==
    IF i > Len(runs) THEN best
    ELSE IF runs[i].raised THEN NoText
    ELSE LET ws == KeptWords(runs[i].words)
         IN IF ws # <<>> /\ MeanConf(ws) > best.conf
            THEN BestUntilRaise(runs, i + 1,
                     [text |-> [k \in 1..Len(ws) |-> ws[k].text], conf |-> MeanConf(ws)])
            ELSE BestUntilRaise(runs, i + 1, best)

ExtractAbortsOnRaise(runs) == BestUntilRaise(runs, 1, NoText)

\* The loop over the configurations from run i on: a run that raises is
\* skipped, a run with kept words replaces the best when its mean is higher.
RECURSIVE BestFrom(_, _, _)
BestFrom(runs, i, best) ==
    IF i > Len(runs) THEN best
    ELSE IF runs[i].raised THEN BestFrom(runs, i + 1, best)
    ELSE LET ws == KeptWords(runs[i].words)
         IN IF ws # <<>> /\ MeanConf(ws) > best.conf
            THEN BestFrom(runs, i + 1,
                     [text |-> [k \in 1..Len(ws) |-> ws[k].text], conf |-> MeanConf(ws)])
            ELSE BestFrom(runs, i + 1, best)

\* _extract_text_enhanced: best_text and best_conf.
ExtractTextEnhanced(runs) == BestFrom(runs, 1, NoText)

\* analyze_screen inside the loop.  The preprocessing before the runs may
\* raise, which the outer except of _extract_text_enhanced turns into no text.
RecognizeFrame ==
    /\ pc = "analyze"
    /\ \E early \in BOOLEAN, runs \in [1..NumConfigs -> EngineOutputs] :
          LET r == IF early THEN NoText ELSE ExtractTextEnhanced(runs)
          IN /\ engine_runs' = IF early THEN <<>> ELSE runs
             /\ transcript' = r.text
             /\ analysis' = AnalyzeText(r.text, r.conf)
             /\ game_context' = AnalyzeContext(game_context, AnalyzeText(r.text, r.conf))
    /\ pc' = "gate"
    /\ UNCHANGED <<now, consecutive_errors, executed, idx, water_plan, botVars,
                   executorVars, observed, checks, appended_actions, appended_parasites,
                   cacheVars, threadVars, action_cooldowns, watering_point, smart_inventory>>

NextRecognition ==
    \/ Tick(RecognitionHorizon, SleepPoints)
    \/ Start
    \/ SetWateringPoint
    \/ LoopTop(RecognitionScans)
    \/ RecognizeFrame
    \/ ConfidenceGate
    \/ ExecuteEnter
    \/ ParasiteCheck
    \/ HandleParasite({"quick"})
    \/ ParasitesDone
    \/ WaterCheck
    \/ WaterPlant({"ok"})
    \/ CanCheck
    \/ ExecuteFinish
    \/ AfterExecute
    \/ CycleCompletes
    \/ Wake

SpecRecognition == Init /\ [][NextRecognition]_vars

\* Run i of the engine yielded a word above the confidence floor.
RunUsable(runs, i) ==
    /\ ~runs[i].raised
    /\ \E k \in 1..Len(runs[i].words) :
          runs[i].words[k].conf > ConfidenceFloor /\ runs[i].words[k].text # ""
\* The mean confidence of the usable run i (each usable run here has one
\* word above the floor).
RunConf(runs, i) ==
    LET k == CHOOSE k \in 1..Len(runs[i].words) :
                 runs[i].words[k].conf > ConfidenceFloor /\ runs[i].words[k].text # ""
    IN runs[i].words[k].conf
AllRunsFailed(runs) == \A i \in 1..Len(runs) : ~RunUsable(runs, i)

\* C17: recognition never raises.  A frame whose recognition meets an
\* exception of the engine still ends the step with a result and without a
\* counted error, and the result is the best of all configurations that did
\* not raise, those after the exception included.  When every configuration
\* raises or yields no word above the confidence floor the transcript is
\* empty with confidence 0, the cycle makes no input and no action, and it
\* ends as a completed cycle: no error is counted and the loop runs on.
C17_RecognitionNeverRaises ==
    /\ [][(pc = "analyze" /\ pc' # "analyze") =>
             /\ pc' = "gate"
             /\ bot_stats' = bot_stats /\ consecutive_errors' = consecutive_errors
             /\ \A i \in 1..Len(engine_runs') :
                   RunUsable(engine_runs', i) =>
                      /\ analysis'.text_confidence >= RunConf(engine_runs', i)
                      /\ transcript' # <<>>
             /\ transcript' # <<>> =>
                   \E i \in 1..Len(engine_runs') :
                      /\ RunUsable(engine_runs', i)
                      /\ analysis'.text_confidence = RunConf(engine_runs', i)]_vars
    /\ []((InCycle /\ AllRunsFailed(engine_runs)) =>
             /\ transcript = <<>>
             /\ ~analysis.text /\ analysis.text_confidence = 0 /\ analysis.confidence = 0
             /\ pc \in {"gate", "periodic"}
             /\ inputs = <<>> /\ events = <<>> /\ ~executed
             /\ bot_stats.errors = 0 /\ consecutive_errors = 0 /\ emergency_stops = 0
             /\ running)
    /\ [][(pc = "periodic" /\ pc' # "periodic" /\ AllRunsFailed(engine_runs)) =>
             /\ pc' = "sleep" /\ consecutive_errors' = 0
             /\ bot_stats' = bot_stats /\ stats' = stats /\ running']_vars

\* Two configurations raised and two returned nothing above the floor: the
\* cycle has passed the gate without a belief and without an action.
C17_Witness ==
    /\ pc = "periodic"
    /\ engine_runs = <<Raised, Returned(<<>>),
                       Returned(<<[text |-> "tlya", conf |-> 30]>>), Raised>>
    /\ transcript = <<>> /\ analysis.confidence = 0
    /\ bot_stats.scans = 1 /\ bot_stats.errors = 0 /\ events = <<>>

\* ------------------------------------------- the cache specification ----
\* cache_ocr_result and get_cached_ocr called directly while time passes.
CacheHorizon == 6
MaxLookups == 3

OCR_CACHE_TTL == 3             \* config.py:44
OCR_CACHE_ENABLED == TRUE      \* config.py:43

Frames == {"frameA", "frameB"}
\* hashlib.md5(image.tobytes()).hexdigest()[:16]
ImageHash(frame) == IF frame = "frameA" THEN "md5A" ELSE "md5B"
CachedTexts == {"tlya", "dolyty"}

\* An entry expiring one second later than the TTL.
IsExpiredLate(age) == age > OCR_CACHE_TTL + 1
\* time.time() - self.cache_timestamps[image_hash] > self.config.OCR_CACHE_TTL
IsExpired(age) == age > OCR_CACHE_TTL

\* d[key] = value on a dict, and del d[key].
DictSet(d, key, value) == [k \in DOMAIN d \cup {key} |-> IF k = key THEN value ELSE d[k]]
DictDel(d, key) == [k \in DOMAIN d \ {key} |-> d[k]]

\* PerformanceOptimizer.cache_ocr_result(image_hash, result)
CacheOcrResult ==
    /\ pc = "none"
    /\ \E frame \in Frames, result \in CachedTexts :
          IF ~OCR_CACHE_ENABLED
          THEN UNCHANGED <<ocr_cache, cache_timestamps>>
          ELSE /\ ocr_cache' = DictSet(ocr_cache, ImageHash(frame), result)
               /\ cache_timestamps' = DictSet(cache_timestamps, ImageHash(frame), now)
    /\ UNCHANGED <<now, loopVars, botVars, executorVars, observed, checks,
                   appended_actions, appended_parasites, transcript, engine_runs,
                   cache_stats, last_lookup, threadVars, action_cooldowns, game_context,
                   watering_point, smart_inventory>>

\* PerformanceOptimizer.get_cached_ocr(image); "" stands for None.
GetCachedOcr ==
    /\ pc = "none"
    /\ last_lookup.n < MaxLookups
    /\ \E frame \in Frames :
          LET image_hash == ImageHash(frame)
              Returns(value) ==
                  last_lookup' = [n |-> last_lookup.n + 1, key |-> image_hash,
                                  at |-> now, returned |-> value]
          IN IF ~OCR_CACHE_ENABLED
             THEN Returns("") /\ UNCHANGED <<ocr_cache, cache_timestamps, cache_stats>>
             ELSE IF image_hash \notin DOMAIN ocr_cache
             THEN /\ cache_stats' = [cache_stats EXCEPT !.cache_misses = @ + 1]
                  /\ Returns("")
                  /\ UNCHANGED <<ocr_cache, cache_timestamps>>
             ELSE IF IsExpired(now - cache_timestamps[image_hash])
             THEN /\ ocr_cache' = DictDel(ocr_cache, image_hash)
                  /\ cache_timestamps' = DictDel(cache_timestamps, image_hash)
                  /\ cache_stats' = [cache_stats EXCEPT !.cache_misses = @ + 1]
                  /\ Returns("")
             ELSE /\ cache_stats' = [cache_stats EXCEPT !.cache_hits = @ + 1]
                  /\ Returns(ocr_cache[image_hash])
                  /\ UNCHANGED <<ocr_cache, cache_timestamps>>
    /\ UNCHANGED <<now, loopVars, botVars, executorVars, observed, checks,
                   appended_actions, appended_parasites, transcript, engine_runs,
                   threadVars, action_cooldowns, game_context, watering_point,
                   smart_inventory>>

NextCache ==
    \/ Tick(CacheHorizon, {"none"})
    \/ CacheOcrResult
    \/ GetCachedOcr

SpecCache == Init /\ [][NextCache]_vars

\* C18: a lookup returns an entry only when the entry is stored and at most
\* 3 seconds old, and then it returns the stored text; a lookup of an
\* entry older than 3 seconds returns nothing, counts a miss and removes
\* the entry and its timestamp.
C18_NoStaleCacheResult ==
    [][last_lookup'.n # last_lookup.n =>
          LET k == last_lookup'.key
          IN /\ last_lookup'.returned # "" =>
                   /\ k \in DOMAIN ocr_cache /\ k \in DOMAIN cache_timestamps
                   /\ now - cache_timestamps[k] <= 3
                   /\ last_lookup'.returned = ocr_cache[k]
             /\ (k \in DOMAIN ocr_cache /\ now - cache_timestamps[k] > 3) =>
                   /\ last_lookup'.returned = ""
                   /\ k \notin DOMAIN ocr_cache' /\ k \notin DOMAIN cache_timestamps'
                   /\ cache_stats'.cache_misses = cache_stats.cache_misses + 1
                   /\ cache_stats'.cache_hits = cache_stats.cache_hits]_vars

\* An entry was returned at the age of exactly 3 seconds, and a second
\* later the lookup of the same frame removed it and reported a miss.
C18_Witness ==
    /\ last_lookup.n = 2 /\ last_lookup.returned = ""
    /\ last_lookup.key \notin DOMAIN ocr_cache
    /\ last_lookup.at = StartTime + 4
    /\ cache_stats = [cache_hits |-> 1, cache_misses |-> 1]

\* ------------------------------------------ the thread specification ----
\* start(), stop(), pause() and resume() called from the presentation
\* thread while loop threads run.  Every frame is without text, so a cycle
\* is the scan, the empty analysis and the sleep.  stop() waits in join for
\* at most five seconds.  The clock is seen to advance while the loop
\* thread is inside analyze_screen (the engine runs of one frame take
\* seconds) and while it does not run.
ThreadHorizon == 6
ThreadScans == 2

JoinTimeout == 5               \* bot.py:196  join(timeout=5.0)

ThreadPoints == {"none", "analyze", "exited"}

\* threading.Thread.is_alive() of a loop thread standing at position p.
IsAlive(p) == p \notin {"none", "exited"}

\* PlantCareBot.start, whatever the thread of the previous start() does: a
\* call while _running is set only logs; otherwise the flags are set and a
\* new thread is created, the previous thread staying where it is.
StartThread ==
    /\ join_since = 0
    /\ IF running
       THEN UNCHANGED <<pc, consecutive_errors, emergency_stops, stale_threads, botVars,
                        cycle_outcomes>>
       ELSE /\ starts < MaxStarts
            /\ running' = TRUE /\ paused' = FALSE /\ shutdown_requested' = FALSE
            /\ starts' = starts + 1
            /\ stale_threads' = IF IsAlive(pc) THEN Append(stale_threads, pc)
                                 ELSE stale_threads
            /\ pc' = "top" /\ consecutive_errors' = 0
            /\ emergency_stops' = 0 /\ cycle_outcomes' = <<>>
            /\ UNCHANGED bot_stats
    /\ UNCHANGED <<now, analysis, executed, idx, water_plan, executorVars,
                   inputs, events, treated_at, checks, appended_actions,
                   appended_parasites, transcript, engine_runs, cacheVars, join_since,
                   attempts, action_cooldowns, game_context, watering_point, smart_inventory>>

\* PlantCareBot.stop up to the join: nothing when not running; otherwise the
\* flags are set and the caller joins the thread if it is alive.
StopThread ==
    /\ join_since = 0
    /\ running
    /\ running' = FALSE /\ shutdown_requested' = TRUE
    /\ join_since' = IF IsAlive(pc) THEN now ELSE 0
    /\ UNCHANGED <<now, loopVars, paused, bot_stats, starts, executorVars, observed,
                   checks, appended_actions, appended_parasites, transcript,
                   engine_runs, cacheVars, stale_threads, cycle_outcomes, attempts,
                   action_cooldowns, game_context, watering_point, smart_inventory>>

\* self._thread.join(timeout=5.0) returns: the thread has ended, or five
\* seconds have passed.
JoinReturns ==
    /\ join_since # 0
    /\ ~IsAlive(pc) \/ now - join_since >= JoinTimeout
    /\ join_since' = 0
    /\ UNCHANGED <<now, loopVars, botVars, executorVars, observed, checks,
                   appended_actions, appended_parasites, transcript, engine_runs,
                   cacheVars, stale_threads, cycle_outcomes, attempts, action_cooldowns,
                   game_context, watering_point, smart_inventory>>

\* PlantCareBot.pause
Pause ==
    /\ ~paused
    /\ paused' = TRUE
    /\ UNCHANGED <<now, loopVars, running, shutdown_requested, bot_stats, starts,
                   executorVars, observed, directVars, action_cooldowns, game_context,
                   watering_point, smart_inventory>>

\* PlantCareBot.resume
Resume ==
    /\ paused
    /\ paused' = FALSE
    /\ UNCHANGED <<now, loopVars, running, shutdown_requested, bot_stats, starts,
                   executorVars, observed, directVars, action_cooldowns, game_context,
                   watering_point, smart_inventory>>

\* The sequence ts without its element i.
WithoutThread(ts, i) == SubSeq(ts, 1, i - 1) \o SubSeq(ts, i + 1, Len(ts))

\* A step of _monitor_loop in a thread of an earlier start(): the while
\* test, the pause test and the scan at the top, then the cycle on a frame
\* without text, the sleep, and the top again.  A thread that leaves the
\* loop ends.
StaleThreadStep ==
    /\ \E i \in 1..Len(stale_threads) :
          LET p == stale_threads[i]
              GoesTo(q) == stale_threads' = [stale_threads EXCEPT ![i] = q]
          IN IF p = "top"
             THEN IF ~(running /\ ~shutdown_requested)
                  THEN /\ stale_threads' = WithoutThread(stale_threads, i)
                       /\ UNCHANGED bot_stats
                  ELSE IF paused
                  THEN UNCHANGED <<stale_threads, bot_stats>>
                  ELSE /\ bot_stats.scans < ThreadScans
                       /\ bot_stats' = [bot_stats EXCEPT !.scans = @ + 1]
                       /\ GoesTo("analyze")
             ELSE /\ GoesTo(CASE p = "analyze" -> "gate" [] p = "gate" -> "periodic"
                               [] p = "periodic" -> "sleep" [] p = "sleep" -> "top")
                  /\ UNCHANGED bot_stats
    /\ UNCHANGED <<now, loopVars, running, paused, shutdown_requested, starts,
                   executorVars, observed, checks, appended_actions, appended_parasites,
                   transcript, engine_runs, cacheVars, join_since, cycle_outcomes, attempts,
                   action_cooldowns, game_context, watering_point, smart_inventory>>

NextThreads ==
    \/ Tick(ThreadHorizon, ThreadPoints)
    \/ StartThread
    \/ StopThread
    \/ JoinReturns
    \/ Pause
    \/ Resume
    \/ LoopTop(ThreadScans)
    \/ AnalyzeScreen({})
    \/ ConfidenceGate
    \/ CycleCompletes
    \/ Wake
    \/ StaleThreadStep

SpecThreads == Init /\ [][NextThreads]_vars

\* The threads that execute _monitor_loop.
LoopThreads == (IF IsAlive(pc) THEN 1 ELSE 0) + Len(stale_threads)

\* C19: at every moment at most one thread executes the monitor loop,
\* whatever start(), stop(), pause() and resume() calls were made, a start()
\* after a stop() whose join timed out included.
C19_AtMostOneLoopThread == LoopThreads <= 1

\* ------------------------------------------- the pause specification ----
\* The monitor loop of one thread with pause() and resume() called at any
\* moment from the presentation thread.
PauseHorizon == 2
PauseScans == 2

\* The steps of the loop thread.
LoopThreadStep ==
    \/ LoopTop(PauseScans)
    \/ AnalyzeScreen(LongRunBeliefs)
    \/ ConfidenceGate
    \/ ExecuteEnter
    \/ ParasiteCheck
    \/ HandleParasite({"quick"})
    \/ ParasitesDone
    \/ WaterCheck
    \/ WaterPlant({"ok"})
    \/ CanCheck
    \/ ExecuteFinish
    \/ AfterExecute
    \/ CycleCompletes
    \/ Wake

NextPause ==
    \/ Tick(PauseHorizon, SleepPoints)
    \/ Start
    \/ SetWateringPoint
    \/ Pause
    \/ Resume
    \/ LoopThreadStep

SpecPause == Init /\ [][NextPause]_vars

\* What a cycle reads and writes besides the flags.
CycleState ==
    <<bot_stats, analysis, executed, idx, water_plan, executorVars, observed,
      action_cooldowns, game_context>>

\* C20: while the pause flag is set the loop starts no cycle: a step at
\* the top of the loop leaves the loop there and changes neither the scan
\* counter nor anything a cycle writes, and a cycle starts only with the
\* flag clear.  With the flag clear, the step at the top starts a cycle and
\* counts the scan.  pause() and resume() of a running bot change the flag
\* alone, so a cycle under way when pause() is called goes on: its next
\* step stays enabled until the loop is back at the top.
C20_PauseHoldsAtTop ==
    /\ [][(pc = "top" /\ paused /\ running /\ ~shutdown_requested) =>
             (pc' = "top" /\ CycleState' = CycleState)]_vars
    /\ [][(pc = "top" /\ pc' # "top") =>
             (~paused /\ pc' = "analyze" /\ bot_stats'.scans = bot_stats.scans + 1)]_vars
    /\ [][(running /\ paused' # paused) =>
             (running' /\ pc' = pc /\ CycleState' = CycleState /\ now' = now)]_vars
    /\ [](paused /\ InCycle => ENABLED <<LoopThreadStep>>_vars)

\* pause() was called during the first cycle, which went on and executed
\* its action; the loop is now held at the top with one scan counted.
C20_Witness ==
    /\ paused /\ pc = "top" /\ running
    /\ bot_stats.scans = 1 /\ bot_stats.actions = 1
    /\ analysis = EmptyAnalysis

\* -------------------------------------------- the stop specification ----
\* One start(), then pause(), resume() and stop() at any moment while the
\* loop thread runs whole cycles.  The calls the thread makes return, and
\* the thread is scheduled: its steps are taken when they stay possible.
StopHorizon == 2
StopScans == 2

\* The first start() of the bot.
StartOnce == starts = 0 /\ Start

\* The steps of the loop thread, a treatment or a watering ending in
\* success or in failure.
StopLoopStep ==
    \/ LoopTop(StopScans)
    \/ AnalyzeScreen(LongRunBeliefs)
    \/ ConfidenceGate
    \/ ExecuteEnter
    \/ ParasiteCheck
    \/ HandleParasite({"quick", "fail"})
    \/ ParasitesDone
    \/ WaterCheck
    \/ WaterPlant(AllWateringOutcomes)
    \/ CanCheck
    \/ ExecuteFinish
    \/ AfterExecute
    \/ CycleCompletes
    \/ Wake

NextStop ==
    \/ Tick(StopHorizon, SleepPoints)
    \/ StartOnce
    \/ SetWateringPoint
    \/ Pause
    \/ Resume
    \/ StopThread
    \/ JoinReturns
    \/ StopLoopStep

SpecStop == Init /\ [][NextStop]_vars /\ WF_vars(StopLoopStep)

\* C21: stop() changes the two flags and nothing a cycle reads or writes,
\* so the sequence in flight goes on: while the loop is inside a cycle after
\* stop() its next step stays possible.  After stop() no cycle is started
\* (the scan counter stands still and the loop enters no analysis), and
\* the loop thread terminates, paused or not.
C21_StopEndsLoopAfterCycle ==
    /\ [][(running /\ ~running') =>
             (shutdown_requested' /\ pc' = pc /\ CycleState' = CycleState)]_vars
    /\ [](shutdown_requested /\ InCycle => ENABLED <<StopLoopStep>>_vars)
    /\ [][shutdown_requested =>
             /\ bot_stats'.scans = bot_stats.scans
             /\ (pc' = "analyze" => pc = "analyze")
             /\ (pc = "top" /\ pc' # pc => pc' = "exited")]_vars
    /\ (shutdown_requested ~> pc = "exited")

\* stop() was called in the first cycle, whose treatment has been made
\* since the cycle began; the pest loop goes on.
C21_Witness ==
    /\ shutdown_requested /\ ~running /\ join_since # 0
    /\ pc = "parasites" /\ idx = 2
    /\ Len(events) = 1 /\ events[1].kind = "treat" /\ events[1].ok
    /\ bot_stats.scans = 1

\* ----------------------------------------- the context specification ----
\* The loop on frames that show the game field: a weakly recognised frame
\* that names the field and nothing else, a well recognised one of the same
\* kind with a UI element, a frame with a pest and a frame with a water
\* shortage.
ContextHorizon == 2
ContextScans == 2

ContextBeliefs ==
    {Facts(40, <<>>, FALSE, 0, TRUE, FALSE),
     Facts(85, <<>>, FALSE, 0, TRUE, TRUE),
     Facts(85, <<"TLYA">>, FALSE, 0, FALSE, FALSE),
     Facts(85, <<>>, TRUE, 0, FALSE, FALSE)}

NextContext ==
    \/ Tick(ContextHorizon, SleepPoints)
    \/ Start
    \/ SetWateringPoint
    \/ LoopTop(ContextScans)
    \/ AnalyzeScreen(ContextBeliefs)
    \/ ConfidenceGate
    \/ ExecuteEnter
    \/ ParasiteCheck
    \/ HandleParasite({"quick", "fail"})
    \/ ParasitesDone
    \/ WaterCheck
    \/ WaterPlant(AllWateringOutcomes)
    \/ CanCheck
    \/ ExecuteFinish
    \/ AfterExecute
    \/ CycleCompletes
    \/ Wake

SpecContext == Init /\ [][NextContext]_vars

\* No treatment and no watering has been attempted since construction.
NothingAttempted ==
    /\ stats.total_actions = 0 /\ stats.failed_actions = 0
    /\ events = <<>> /\ inputs = <<>>

\* C23: GameContext is mutated only after an action is attempted: at the
\* end of a cycle, when no cycle so far has attempted an action (the
\* confidence was below the threshold or nothing was actionable), every
\* field of GameContext still has the value it had after construction
\* (the operator has set no watering point).
C23_ContextOnlyAfterAction ==
    (pc = "periodic" /\ NothingAttempted /\ watering_point = 0)
        => game_context = NewGameContext

\* C26: every belief whose confidence is at least the 0.3 threshold is
\* handed to the executor by the loop, and the loop's test and the
\* executor's test take the same act/skip decision for every confidence,
\* exactly 0.3 included.
C26_ThresholdsAgree ==
    [][pc = "gate" =>
          /\ (analysis.confidence >= ConfidenceThreshold => pc' = "execute")
          /\ (LoopActs(analysis.confidence) <=> ~ExecutorSkips(analysis.confidence))]_vars

\* C27: with a single loop thread any two treatment attempts for the same
\* pest, successful or failed, are at least 5 seconds apart and any two
\* watering attempts at least 3 seconds apart: a failed attempt is not
\* retried before its cooldown has elapsed.
C27_AttemptsRateLimited ==
    \A k \in DOMAIN attempts :
       attempts[k].closest >= (IF k = "water" THEN WaterCooldown ELSE ParasiteCooldown)

\* A treatment failed, and the same pest was attempted again, and failed
\* again, when its 5 seconds had passed.
C27_Witness ==
    /\ pc = "parasites"
    /\ DOMAIN attempts = {"TLYA"}
    /\ attempts["TLYA"].last = StartTime + ParasiteCooldown
    /\ stats.failed_actions = 2 /\ stats.parasites_treated = 0
    /\ bot_stats.scans = 2

\* Between two cycles: the loop thread is not inside a cycle.
CycleBoundary == pc \in {"none", "top", "sleep", "exited"}

\* C28: at every cycle boundary the executor's total_actions is
\* parasites_treated + waterings_performed, watering_count equals
\* waterings_performed and GameContext.plants_watered, parasites_treated
\* equals GameContext.plants_treated, and the bot's action counter, which
\* grows by at most 1 per cycle, exceeds neither the number of cycles nor
\* the executor's total_actions.
C28_CountersConsistent ==
    CycleBoundary =>
       /\ stats.total_actions = stats.parasites_treated + stats.waterings_performed
       /\ watering_count = stats.waterings_performed
       /\ stats.waterings_performed = game_context.plants_watered
       /\ stats.parasites_treated = game_context.plants_treated
       /\ bot_stats.actions <= bot_stats.scans
       /\ bot_stats.actions <= stats.total_actions

\* After a cycle with two treatments and a watering and a cycle in which
\* the watering failed: three executor actions, one bot action.
C28_Witness ==
    /\ pc = "sleep" /\ bot_stats.scans = 2
    /\ stats.parasites_treated = 2 /\ stats.waterings_performed = 1
    /\ stats.failed_actions = 1
    /\ bot_stats.actions = 1

\* C29: once the loop thread has terminated, for whatever reason, _running
\* is False, so that a later start() launches a new loop instead of
\* reporting that the bot is already running.
C29_TerminatedNotRunning ==
    ~IsAlive(pc) => (~running /\ (starts < MaxStarts => ENABLED Start))

\* C24: GameContext and the cooldown table are written only by the loop
\* thread: while the loop is running, a step of the presentation thread
\* (start, pause, resume, stop, set_watering_point), which is a step that
\* changes the running flag, the pause flag or the watering point, leaves
\* GameContext and the cooldown table unchanged.
C24_OnlyLoopWritesContext ==
    [][(running /\ (running' # running \/ paused' # paused
                       \/ watering_point' # watering_point))
          => (game_context' = game_context
                /\ action_cooldowns' = action_cooldowns)]_vars

\* ---------------------------------------- the recovery specification ----
\* One loop thread whose cycles either raise or complete, the completing
\* ones with treatments and waterings that succeed or fail, and which the
\* operator may pause and resume.
RecoverHorizon == 1
RecoverScans == 6
RecoverErrors == 6

NextRecover ==
    \/ Tick(RecoverHorizon, SleepPoints)
    \/ StartOnce
    \/ SetWateringPoint
    \/ Pause
    \/ Resume
    \/ LoopTop(RecoverScans)
    \/ AnalyzeScreen(LongRunBeliefs)
    \/ CycleRaises(RecoverErrors)
    \/ ConfidenceGate
    \/ ExecuteEnter
    \/ ParasiteCheck
    \/ HandleParasite({"quick", "fail"})
    \/ ParasitesDone
    \/ WaterCheck
    \/ WaterPlant(AllWateringOutcomes)
    \/ CanCheck
    \/ ExecuteFinish
    \/ AfterExecute
    \/ CycleCompletes
    \/ Wake

SpecRecover == Init /\ [][NextRecover]_vars

AllRaised(s) == \A i \in 1..Len(s) : s[i] = "raised"

\* C25: the loop leaves the running state on its own only through repeated
\* cycle failure.  A cycle that completes, whatever its capture, treatment
\* or watering returned, sets the consecutive-failure count to zero;
\* emergency stop has been called only when the 5 most recent cycles of the
\* thread all raised; and _running is cleared, and the loop left, only in
\* the step that calls emergency stop.
C25_StopsOnlyAfterFiveRaises ==
    /\ [][(pc = "periodic" /\ pc' # pc) => consecutive_errors' = 0]_vars
    /\ [](emergency_stops > 0 =>
             (Len(cycle_outcomes) = max_errors /\ AllRaised(cycle_outcomes)))
    /\ [][((running /\ ~running') \/ (pc # "exited" /\ pc' = "exited"))
             => emergency_stops' = emergency_stops + 1]_vars

\* A cycle whose two treatments and whose watering all failed completed,
\* the next five cycles raised, and only then was emergency stop called.
C25_Witness ==
    /\ emergency_stops = 1 /\ pc = "exited"
    /\ bot_stats.scans = 6 /\ bot_stats.errors = 5
    /\ stats.failed_actions = 3 /\ stats.total_actions = 0

\* ------------------------------------- the cached-recognition specification ----
\* _extract_text_enhanced with the OCR cache of the optimizer: the lookup in
\* front of the recognition and the store behind it, on the same frames at
\* different times.

\* np.array2string(image[:10, :10].flatten()): the text of the numbers of
\* the frame's top-left corner, in brackets.
ArrayString(frame) == IF frame = "frameA" THEN "[ 12 40 7 ]" ELSE "[ 200 3 91 ]"

\* What get_cached_ocr returns for key image_hash at time t ("" for None).
CachedValue(cache, stamps, image_hash, t) ==
    IF ~OCR_CACHE_ENABLED \/ image_hash \notin DOMAIN cache THEN ""
    ELSE IF IsExpired(t - stamps[image_hash]) THEN ""
    ELSE cache[image_hash]

\* The tables get_cached_ocr leaves behind: an expired entry is deleted.
CacheAfterLookup(d, stamps, image_hash, t) ==
    IF OCR_CACHE_ENABLED /\ image_hash \in DOMAIN d /\ IsExpired(t - stamps[image_hash])
    THEN DictDel(d, image_hash)
    ELSE d

\* _extract_text_enhanced on a frame: the cached text when the lookup
\* returns one; otherwise the engine's best text, stored in the cache when
\* it is not empty.
ExtractTextCached ==
    /\ pc = "none"
    /\ last_lookup.n < MaxLookups
    /\ \E frame \in Frames, best_text \in CachedTexts \cup {""} :
          LET image_hash == ImageHash(frame)
              cached == CachedValue(ocr_cache, cache_timestamps, image_hash, now)
              looked == CacheAfterLookup(ocr_cache, cache_timestamps, image_hash, now)
              stamped == CacheAfterLookup(cache_timestamps, cache_timestamps, image_hash, now)
              stores == cached = "" /\ best_text # "" /\ OCR_CACHE_ENABLED
          IN /\ last_lookup' = [n |-> last_lookup.n + 1, key |-> image_hash,
                                 at |-> now, returned |-> cached]
             /\ cache_stats' = IF ~OCR_CACHE_ENABLED THEN cache_stats
                               ELSE IF cached = ""
                               THEN [cache_stats EXCEPT !.cache_misses = @ + 1]
                               ELSE [cache_stats EXCEPT !.cache_hits = @ + 1]
             /\ ocr_cache' = IF stores THEN DictSet(looked, ArrayString(frame), best_text)
                             ELSE looked
             /\ cache_timestamps' = IF stores THEN DictSet(stamped, ArrayString(frame), now)
                                    ELSE stamped
             /\ transcript' = IF cached # "" THEN <<cached>>
                              ELSE IF best_text # "" THEN <<best_text>> ELSE <<>>
    /\ UNCHANGED <<now, loopVars, botVars, executorVars, observed, checks,
                   appended_actions, appended_parasites, engine_runs,
                   threadVars, action_cooldowns, game_context, watering_point,
                   smart_inventory>>

NextCachedRecognition ==
    \/ Tick(CacheHorizon, {"none"})
    \/ ExtractTextCached

SpecCachedRecognition == Init /\ [][NextCachedRecognition]_vars

\* C30: store and lookup agree on the key.  When the recognition of a frame
\* has stored a non-empty transcript in the OCR cache, the lookup made for
\* an identical frame within the TTL returns that transcript: a hit.
C30_StoreAndLookupAgree ==
    [][\A frame \in Frames :
          (/\ last_lookup'.n = last_lookup.n + 1
           /\ last_lookup'.key = ImageHash(frame)
           /\ ArrayString(frame) \in DOMAIN ocr_cache
           /\ now - cache_timestamps[ArrayString(frame)] <= OCR_CACHE_TTL)
          => (/\ last_lookup'.returned = ocr_cache[ArrayString(frame)]
              /\ cache_stats'.cache_hits = cache_stats.cache_hits + 1)]_vars

====
